---- MODULE Spec2Model ----
(***************************************************************************)
(* Cross-document schema reference resolution and bundling, as performed   *)
(* by the generation scripts of bannou-service:                            *)
(*   scripts/generate-client-schema.py, scripts/resolve-api-refs.py,       *)
(*   scripts/resolve-event-refs.py, scripts/extract-archive-schemas.py,    *)
(*   scripts/generate-lifecycle-events.py.                                 *)
(*                                                                         *)
(* A reference string  <head>#<path><name>  is the record                  *)
(*   [head |-> sequence of tokens, path |-> string, name |-> string]       *)
(* where a token of the head is the character ".", the character "/" or a  *)
(* whole file name.  The regular expressions of the scripts are operators  *)
(* over that sequence.  Quote characters never occur in a parsed YAML      *)
(* scalar of the schemas and are not part of the alphabet.                 *)
(***************************************************************************)
EXTENDS Integers, Sequences, FiniteSets, TLC

\* ------------------------------------------------------------------------
\* Bounds
\* ------------------------------------------------------------------------
MaxNodes == 1      \* nodes of the document handed to a reference rewriter
MaxApply == 2      \* rewriter applications in one run of the rewriter machine
MaxEdges == 5      \* references between the types of one schema universe
MaxCycleEdges == 3 \* references of a universe the collectors run on alone
MaxProps == 1      \* properties of one schema object handed to bundle_schema
MaxChain == 12     \* types (or nested objects) on one property chain of an archive schema

\* ------------------------------------------------------------------------
\* Alphabet
\* ------------------------------------------------------------------------
CS == "/components/schemas/"
DefsPath == "/defs/"
Paths == {CS, DefsPath}

CommonApi == "common-api.yaml"
EscrowApi == "escrow-api.yaml"
AccountApi == "account-api.yaml"
CommonEvents == "common-events.yaml"
AccountEvents == "account-events.yaml"

\* every file name used by the model; each matches [a-zA-Z][a-zA-Z0-9_-]*\.yaml
FileNames == {CommonApi, EscrowApi, AccountApi, CommonEvents, AccountEvents}
\* the file names that match [a-z-]+-api\.yaml
ApiFileNames == {CommonApi, EscrowApi, AccountApi}

Types == {"Account", "Address", "Country", "Region"}
\* the order of Python's sorted() on the type names
Rank == [t \in Types |-> CASE t = "Account" -> 1 [] t = "Address" -> 2
                           [] t = "Country" -> 3 [] t = "Region" -> 4]

NoMatch == <<"nomatch">>

DotSlash == <<".", "/">>
DotDotSlash == <<".", ".", "/">>

Tail2(h) == SubSeq(h, 3, Len(h))
Tail3(h) == SubSeq(h, 4, Len(h))
StartsWith(h, p) == Len(h) >= Len(p) /\ SubSeq(h, 1, Len(p)) = p

MkRef(h, p, n) == [head |-> h, path |-> p, name |-> n]
LocalRef(n) == MkRef(<<>>, CS, n)

\* ------------------------------------------------------------------------
\* Regular expressions of the scripts, on the head of a reference
\* ------------------------------------------------------------------------

\* (?:\.\.?/)?([a-zA-Z][^#'"]+)#   -- group 1, or NoMatch
cross_file_re(h) ==
    LET rest == IF StartsWith(h, DotDotSlash) THEN Tail3(h)
                ELSE IF StartsWith(h, DotSlash) THEN Tail2(h)
                ELSE h
    IN IF Len(rest) >= 1 /\ rest[1] \in FileNames THEN rest ELSE NoMatch

\* \.\.?/?([^#'"]+)#   -- group 1, or NoMatch (greedy, with backtracking)
dotted_file_re(h) ==
    IF Len(h) = 0 \/ h[1] # "." THEN NoMatch
    ELSE LET dot2 == Len(h) >= 2 /\ h[2] = "."
             afterDot2 == SubSeq(h, 3, Len(h))
             afterDot1 == SubSeq(h, 2, Len(h))
             slashA == Len(afterDot2) >= 1 /\ afterDot2[1] = "/"
             slashB == Len(afterDot1) >= 1 /\ afterDot1[1] = "/"
         IN  IF dot2 /\ slashA /\ Len(afterDot2) >= 2 THEN Tail(afterDot2)
             ELSE IF dot2 /\ Len(afterDot2) >= 1 THEN afterDot2
             ELSE IF slashB /\ Len(afterDot1) >= 2 THEN Tail(afterDot1)
             ELSE IF Len(afterDot1) >= 1 THEN afterDot1
             ELSE NoMatch

\* (?:\./?)?#   -- TRUE when the head matches
self_local_re(h) == h \in {<<>>, <<".">>, DotSlash}

\* \./?#   -- TRUE when the head matches
self_qualified_re(h) == h \in {<<".">>, DotSlash}

\* ([a-zA-Z][a-zA-Z0-9_-]*\.yaml)#   -- the file name, or NoMatch
sibling_file_re(h) ==
    IF Len(h) = 1 /\ h[1] \in FileNames THEN h ELSE NoMatch

\* variant: the pattern without the optional prefix group
any_prefix_file_re_bare(h) == sibling_file_re(h)

\* (?:\.\.?/)?([a-zA-Z][a-zA-Z0-9_-]*\.yaml)#   -- the file name, or NoMatch
any_prefix_file_re(h) ==
    LET rest == IF StartsWith(h, DotDotSlash) THEN Tail3(h)
                ELSE IF StartsWith(h, DotSlash) THEN Tail2(h)
                ELSE h
    IN sibling_file_re(rest)

\* EXTERNAL_API_REF_PATTERN  \.?/?[a-z-]+-api\.yaml#  searched in the string:
\* the part of the head that is left in front of the (leftmost) match, or
\* NoMatch.  The api file name is the token right before '#'.
external_api_ref_cut(h) ==
    IF Len(h) = 0 \/ h[Len(h)] \notin ApiFileNames THEN NoMatch
    ELSE LET a == SubSeq(h, 1, Len(h) - 1)
             b == IF Len(a) >= 1 /\ a[Len(a)] = "/" THEN SubSeq(a, 1, Len(a) - 1) ELSE a
             c == IF Len(b) >= 1 /\ b[Len(b)] = "." THEN SubSeq(b, 1, Len(b) - 1) ELSE b
         IN c

\* ------------------------------------------------------------------------
\* Reference rewriters, on one reference string
\* ------------------------------------------------------------------------

\* resolve-event-refs.py convert_refs_to_local, the '$ref' branch
convert_ref_event(r, inlined_types) ==
    IF dotted_file_re(r.head) # NoMatch /\ r.path = CS /\ r.name \in inlined_types
    THEN LocalRef(r.name)
    ELSE IF self_qualified_re(r.head) /\ r.path = CS
         THEN LocalRef(r.name)
         ELSE r

\* variant: the conversion that does not look at the set of inlined types
convert_cross_ref_api_any(r, inlined_types) ==
    IF cross_file_re(r.head) # NoMatch /\ r.path = CS
    THEN LocalRef(r.name)
    ELSE r

\* resolve-api-refs.py convert_cross_refs_to_local, the '$ref' branch
convert_cross_ref_api(r, inlined_types) ==
    IF cross_file_re(r.head) # NoMatch /\ r.path = CS /\ r.name \in inlined_types
    THEN LocalRef(r.name)
    ELSE r

\* extract-archive-schemas.py convert_refs_to_local, the '$ref' branch
convert_ref_archive(r, collected_types) ==
    IF cross_file_re(r.head) # NoMatch /\ r.path = CS /\ r.name \in collected_types
    THEN LocalRef(r.name)
    ELSE r

\* variant: the sibling file is looked up in the directory of the output
fix_ref_event_same_dir(r) ==
    IF sibling_file_re(r.head) # NoMatch
    THEN MkRef(DotSlash \o sibling_file_re(r.head), r.path, r.name)
    ELSE r

\* resolve-event-refs.py fix_relative_paths_for_generated, the '$ref' branch
fix_ref_event(r) ==
    IF sibling_file_re(r.head) # NoMatch
    THEN MkRef(DotDotSlash \o sibling_file_re(r.head), r.path, r.name)
    ELSE r

\* variant: the parent prefix is put in front of the whole head
fix_ref_lifecycle_prepend(r) ==
    IF any_prefix_file_re(r.head) # NoMatch
    THEN MkRef(DotDotSlash \o r.head, r.path, r.name)
    ELSE r

\* generate-lifecycle-events.py fix_relative_paths_for_generated, '$ref' branch
fix_ref_lifecycle(r) ==
    IF any_prefix_file_re(r.head) # NoMatch
    THEN MkRef(DotDotSlash \o any_prefix_file_re(r.head), r.path, r.name)
    ELSE r

\* generate-client-schema.py rewrite_external_refs, the '$ref' branch
rewrite_external_ref(r) ==
    IF external_api_ref_cut(r.head) # NoMatch
    THEN MkRef(external_api_ref_cut(r.head), r.path, r.name)
    ELSE r

\* ------------------------------------------------------------------------
\* Reference rewriters, on a document: a sequence of nodes [key, val]; the
\* node is a reference when its key is "$ref", any other key is plain data
\* ------------------------------------------------------------------------
RefKey == "$ref"
MapRefs(d, F(_)) ==
    [i \in DOMAIN d |-> IF d[i].key = RefKey THEN [key |-> RefKey, val |-> F(d[i].val)]
                        ELSE d[i]]

convert_refs_to_local_event(d, inlined_types) ==
    LET F(r) == convert_ref_event(r, inlined_types) IN MapRefs(d, F)
convert_cross_refs_to_local(d, inlined_types) ==
    LET F(r) == convert_cross_ref_api(r, inlined_types) IN MapRefs(d, F)
fix_relative_paths_for_generated_event(d) == MapRefs(d, fix_ref_event)
fix_relative_paths_for_generated_lifecycle(d) == MapRefs(d, fix_ref_lifecycle)
rewrite_external_refs(d) == MapRefs(d, rewrite_external_ref)

\* ------------------------------------------------------------------------
\* Insertion-ordered dictionaries (Python dict) keyed by the field "name",
\* and Python's sorted()
\* ------------------------------------------------------------------------
Names(d) == {d[i].name : i \in DOMAIN d}
DictGet(d, n) == d[CHOOSE i \in DOMAIN d : d[i].name = n]
DictSet(d, e) ==
    IF e.name \in Names(d)
    THEN [i \in DOMAIN d |-> IF d[i].name = e.name THEN e ELSE d[i]]
    ELSE Append(d, e)
\* d.update(u), and 'for k, v in u: d[k] = v': a key of d keeps its place
\* and takes the value of u, the new keys follow in the order of u
DictUpdate(d, u) ==
    [i \in DOMAIN d |-> IF d[i].name \in Names(u) THEN DictGet(u, d[i].name) ELSE d[i]]
        \o SelectSeq(u, LAMBDA e : e.name \notin Names(d))

MinRank(S) == CHOOSE x \in S : \A y \in S : Rank[x] <= Rank[y]
Sorted(S) ==
    [i \in 1..Cardinality(S) |->
        CHOOSE x \in S : Cardinality({y \in S : Rank[y] < Rank[x]}) = i - 1]
\* the entries of dictionary d in the order of sorted(d.items())
SortedItems(d) == [i \in 1..Len(d) |-> DictGet(d, Sorted(Names(d))[i])]

\* ------------------------------------------------------------------------
\* Schema universes: which type refers to which, and which file defines it
\* ------------------------------------------------------------------------
CandEdges == {<<"Account", "Address">>, <<"Account", "Country">>,
              <<"Address", "Region">>, <<"Country", "Region">>,
              <<"Address", "Country">>, <<"Address", "Account">>,
              <<"Region", "Account">>, <<"Region", "Region">>}
Graphs == {g \in SUBSET CandEdges : Cardinality(g) <= MaxEdges}
Succ(g, t) == {e[2] : e \in {x \in g : x[1] = t}}

Nowhere == "nowhere"
Spellings == {<<>>, DotSlash, DotDotSlash}
\* the reference written inside a type of file 'from' to reach type u
RefTo(place, spell, from, u) ==
    IF place[u] = from \/ place[u] = Nowhere
    THEN LocalRef(u)
    ELSE MkRef(spell \o <<place[u]>>, CS, u)
DocOf(g, place, spell, f) ==
    [t \in {x \in Types : place[x] = f} |-> {RefTo(place, spell, f, u) : u \in Succ(g, t)}]
Universe(g, place, spell, files) == [f \in files |-> DocOf(g, place, spell, f)]
PlacedFiles(place) == {place[t] : t \in Types} \ {Nowhere}

\* ------------------------------------------------------------------------
\* Inputs of the rewriter machine
\* ------------------------------------------------------------------------
RwFiles == {CommonApi, CommonEvents}
RwNames == {"Account", "Address"}
RwHeads == {<<>>, DotSlash}
             \cup {<<f>> : f \in RwFiles}
             \cup {DotSlash \o <<f>> : f \in RwFiles}
             \cup {DotDotSlash \o <<f>> : f \in RwFiles}
RwRefs == {MkRef(h, p, n) : h \in RwHeads, p \in Paths, n \in RwNames}
\* a description whose text has the shape of a cross-file reference
PlainNode == [key |-> "description", val |-> MkRef(<<CommonApi>>, CS, "Account")]
RwNodes == {[key |-> RefKey, val |-> r] : r \in RwRefs} \cup {PlainNode}
RwDocs == UNION {[1..n -> RwNodes] : n \in 1..MaxNodes}
RwInlined == {{}, {"Account"}}
RwOps == {"convert_event", "convert_api", "fix_event", "fix_lifecycle", "rewrite_external"}

VARIABLES
    \* the rewriter machine
    doc,              \* the document being rewritten
    prevDoc,          \* the document before the last application
    origDoc,          \* the document the run started from
    ops,              \* the rewriters applied so far
    inlinedArg,       \* the inlined_types argument
    \* the bundling machines
    tool,             \* the script that runs
    docs,             \* schemas/: file name -> components/schemas (type -> its $refs)
    roots,            \* api: the $refs in allOf items of the root schema;
                      \* archive: the types marked x-archive-type;
                      \* client: file name -> $refs of its client-accessible endpoint
    pc,               \* position in the script
    fileQueue,        \* files still to be processed, in processing order
    crossRefs,        \* api/event: the (file_path, type_name) pairs found in the root
    curFile,          \* the file whose types are being processed
    nameQueue,        \* type names still to be processed for curFile
    stack,            \* call stack of get_type_with_dependencies / collect_type_with_deps
    collected,        \* the 'collected' dictionary of the running collection
    types_to_inline,  \* api/event: accumulated types to inline
    loaded_schemas,   \* archive: the files cached by collect_type_with_deps
    all_schemas,      \* client: every schema seen so far (first definition wins)
    required_schemas, \* client: names required by client endpoints
    refs_to_process,  \* client: pending set of collect_required_schemas
    out,              \* the emitted document
    warnings,         \* warnings printed
    \* the process
    argv,             \* sys.argv[1:]
    malformed,        \* schemas/: the files whose content is not parseable YAML
    exit_code,        \* the exit status, NoExit while the script runs
    generated,        \* the generated files: names for schemas/Generated/,
                      \* paths from the repository root for the others
    \* the orchestrator generate-unreal-sdk.py
    scripts,          \* scripts/: the generator scripts that exist
    returncodes,      \* the return codes of the steps run so far, in order
    reported          \* whether "GENERATION COMPLETE" was printed

rwVars == <<doc, prevDoc, origDoc, ops, inlinedArg>>
bundleVars == <<tool, docs, roots, pc, fileQueue, crossRefs, curFile, nameQueue, stack,
                collected, types_to_inline, loaded_schemas, all_schemas,
                required_schemas, refs_to_process, out, warnings>>
mainVars == <<argv, malformed, exit_code>>
sdkVars == <<scripts, returncodes, reported>>
vars == <<doc, prevDoc, origDoc, ops, inlinedArg,
          tool, docs, roots, pc, fileQueue, crossRefs, curFile, nameQueue, stack,
          collected, types_to_inline, loaded_schemas, all_schemas,
          required_schemas, refs_to_process, out, warnings,
          argv, malformed, exit_code, generated, scripts, returncodes, reported>>

NoExit == -1
NoOutput == [written |-> FALSE, paths |-> {}, schemas |-> <<>>, xInlined |-> <<>>]

\* the bundling machines at rest, with the universe u and the root selector r
BundleState(t, u, r) ==
    /\ tool = t
    /\ docs = u
    /\ roots = r
    /\ fileQueue = <<>>
    /\ crossRefs = {}
    /\ curFile = ""
    /\ nameQueue = {}
    /\ stack = <<>>
    /\ collected = <<>>
    /\ types_to_inline = <<>>
    /\ loaded_schemas = {}
    /\ all_schemas = <<>>
    /\ required_schemas = {}
    /\ refs_to_process = {}
    /\ out = NoOutput
    /\ warnings = {}

\* the script entered at its resolver, every file parseable, no argument
BundleInit(t, u, r) ==
    /\ BundleState(t, u, r)
    /\ pc = "start"
    /\ argv = <<>>
    /\ malformed = {}
    /\ exit_code = NoExit
    /\ generated = {}

\* no orchestrator runs
SdkIdle ==
    /\ scripts = {}
    /\ returncodes = <<>>
    /\ reported = FALSE

RewriteIdle ==
    /\ doc = <<>>
    /\ prevDoc = <<>>
    /\ origDoc = <<>>
    /\ ops = <<>>
    /\ inlinedArg = {}

\* ------------------------------------------------------------------------
\* The rewriter machine: a rewriter is applied to a document, then a
\* rewriter is applied to the result
\* ------------------------------------------------------------------------
InitRewrite ==
    /\ doc \in RwDocs
    /\ prevDoc = doc
    /\ origDoc = doc
    /\ ops = <<>>
    /\ inlinedArg \in RwInlined
    /\ BundleInit("rewrite", <<>>, {})
    /\ SdkIdle

RwStep(op, result) ==
    /\ tool = "rewrite"
    /\ Len(ops) < MaxApply
    /\ prevDoc' = doc
    /\ doc' = result
    /\ ops' = Append(ops, op)
    /\ UNCHANGED <<origDoc, inlinedArg>>
    /\ UNCHANGED bundleVars
    /\ UNCHANGED sdkVars
    /\ UNCHANGED mainVars
    /\ UNCHANGED generated

ApplyConvertEvent == RwStep("convert_event", convert_refs_to_local_event(doc, inlinedArg))
ApplyConvertApi == RwStep("convert_api", convert_cross_refs_to_local(doc, inlinedArg))
ApplyFixEvent == RwStep("fix_event", fix_relative_paths_for_generated_event(doc))
ApplyFixLifecycle == RwStep("fix_lifecycle", fix_relative_paths_for_generated_lifecycle(doc))
ApplyRewriteExternal == RwStep("rewrite_external", rewrite_external_refs(doc))

NextRewrite ==
    \/ ApplyConvertEvent
    \/ ApplyConvertApi
    \/ ApplyFixEvent
    \/ ApplyFixLifecycle
    \/ ApplyRewriteExternal

SpecRewrite == InitRewrite /\ [][NextRewrite]_vars

\* ------------------------------------------------------------------------
\* Reference finders of the scripts, on the set of $refs of a node
\* ------------------------------------------------------------------------
RootType == "AccountResponse"
AllRefs(d) == UNION {d[t] : t \in DOMAIN d}

\* variant: every cross-file reference of the root document is a root
find_allof_cross_file_refs_any(allOfRefs) ==
    {[file |-> cross_file_re(r.head), name |-> r.name] :
        r \in {x \in AllRefs(docs[AccountApi]) : cross_file_re(x.head) # NoMatch /\ x.path = CS}}

\* resolve-api-refs.py: the (file_path, type_name) pairs of the allOf items
find_allof_cross_file_refs(allOfRefs) ==
    {[file |-> cross_file_re(r.head), name |-> r.name] :
        r \in {x \in allOfRefs : cross_file_re(x.head) # NoMatch /\ x.path = CS}}

\* resolve-event-refs.py: the (file_path, type_name) pairs of a document
find_cross_file_refs(refs) ==
    {[file |-> dotted_file_re(r.head), name |-> r.name] :
        r \in {x \in refs : dotted_file_re(x.head) # NoMatch /\ x.path = CS}}

\* resolve-api-refs.py find_local_refs
find_local_refs_api(def) ==
    {r.name : r \in {x \in def : self_local_re(x.head) /\ x.path = CS}}

\* resolve-event-refs.py find_local_refs, called without source_file
find_local_refs_event(def) ==
    {r.name : r \in {x \in def : self_local_re(x.head) /\ x.path = CS}}

has_nested_refs(def) == find_local_refs_event(def) # {}

NoFile == <<>>
\* variant: the local references of a type are not followed
find_refs_in_type_cross_only(def) ==
    {[file |-> cross_file_re(r.head), name |-> r.name] :
        r \in {x \in def : cross_file_re(x.head) # NoMatch /\ x.path = CS}}

\* extract-archive-schemas.py find_refs_in_type: (file_path or None, type_name)
find_refs_in_type(def) ==
    {[file |-> cross_file_re(r.head), name |-> r.name] :
        r \in {x \in def : cross_file_re(x.head) # NoMatch /\ x.path = CS}}
    \cup {[file |-> NoFile, name |-> r.name] :
        r \in {x \in def : cross_file_re(x.head) = NoMatch /\ x.head = <<>> /\ x.path = CS}}

\* variant: references into other *-api.yaml files are not extracted
get_refs_from_schema_local(refs) ==
    {r.name : r \in {x \in refs : x.head = <<>> /\ x.path = CS}}

\* generate-client-schema.py get_refs_from_schema
get_refs_from_schema(refs) ==
    {r.name : r \in {x \in refs :
        \/ x.head = <<>> /\ x.path = CS
        \/ Len(x.head) >= 1 /\ x.head[Len(x.head)] \in ApiFileNames /\ x.path = CS}}

\* schema_dir / file_path exists, for a file_path made of tokens (the retry
\* with file_path.lstrip(...) finds nothing more for these paths)
PathExists(p) == Len(p) = 1 /\ p[1] \in DOMAIN docs

Perms(S) == {q \in [1..Cardinality(S) -> S] : \A i, k \in DOMAIN q : i # k => q[i] # q[k]}
Top == stack[Len(stack)]
Pop(st) == SubSeq(st, 1, Len(st) - 1)
ReplaceTop(st, fr) == [st EXCEPT ![Len(st)] = fr]
AfterType(q) == IF q = {} THEN "files" ELSE "types"

\* the own components/schemas of file f as dictionary entries, in file order
OwnOrder(f) == (IF RootType \in DOMAIN docs[f] THEN <<RootType>> ELSE <<>>)
                 \o Sorted(DOMAIN docs[f] \ {RootType})
OwnEntries(f) ==
    [i \in 1..Len(OwnOrder(f)) |->
        [name |-> OwnOrder(f)[i], file |-> f, refs |-> docs[f][OwnOrder(f)[i]]]]
\* the deep copy of a collected definition
WithRefs(e) == [name |-> e.name, file |-> e.file, refs |-> docs[e.file][e.name]]
MapEntryRefs(d, F(_)) == [i \in DOMAIN d |-> [d[i] EXCEPT !.refs = {F(r) : r \in @}]]

\* ------------------------------------------------------------------------
\* resolve-api-refs.py resolve_api_schema and resolve-event-refs.py
\* resolve_event_schema
\* ------------------------------------------------------------------------
RootFile(t) == IF t = "event" THEN AccountEvents ELSE AccountApi
find_local_refs(def) ==
    IF tool = "api" THEN find_local_refs_api(def) ELSE find_local_refs_event(def)

ResolveStart ==
    /\ tool \in {"api", "event"}
    /\ pc = "start"
    /\ LET found == IF tool = "api"
                    THEN find_allof_cross_file_refs(roots)
                    ELSE find_cross_file_refs(AllRefs(docs[RootFile(tool)]))
       IN IF found = {}
          THEN /\ pc' = "done"
               /\ UNCHANGED <<fileQueue, crossRefs>>
          ELSE /\ fileQueue' \in Perms({x.file : x \in found})
               /\ crossRefs' = found
               /\ pc' = "files"
    /\ UNCHANGED <<tool, docs, roots, curFile, nameQueue, stack, collected,
                   types_to_inline, loaded_schemas, all_schemas, required_schemas,
                   refs_to_process, out, warnings>>
    /\ UNCHANGED rwVars
    /\ UNCHANGED sdkVars
    /\ UNCHANGED mainVars
    /\ UNCHANGED generated

ResolveNextFile ==
    /\ tool \in {"api", "event"}
    /\ pc = "files"
    /\ fileQueue # <<>>
    /\ fileQueue' = Tail(fileQueue)
    /\ IF PathExists(Head(fileQueue))
       THEN /\ curFile' = Head(fileQueue)[1]
            /\ nameQueue' = {x.name : x \in {y \in crossRefs : y.file = Head(fileQueue)}}
            /\ pc' = "types"
            /\ UNCHANGED warnings
       ELSE /\ warnings' = warnings \cup {[kind |-> "could_not_load", what |-> Head(fileQueue)]}
            /\ UNCHANGED <<curFile, nameQueue, pc>>
    /\ UNCHANGED <<tool, docs, roots, crossRefs, stack, collected, types_to_inline,
                   loaded_schemas, all_schemas, required_schemas, refs_to_process, out>>
    /\ UNCHANGED rwVars
    /\ UNCHANGED sdkVars
    /\ UNCHANGED mainVars
    /\ UNCHANGED generated

\* one turn of 'for type_name in type_names': the checks, and the entry of
\* get_type_with_dependencies(type_name, source_schemas)
ResolveNextType ==
    /\ tool \in {"api", "event"}
    /\ pc = "types"
    /\ \E type_name \in nameQueue :
        /\ nameQueue' = nameQueue \ {type_name}
        /\ IF type_name \notin DOMAIN docs[curFile]
           THEN /\ warnings' = IF tool = "api"
                               THEN warnings \cup {[kind |-> "type_not_found", what |-> type_name]}
                               ELSE warnings
                /\ pc' = AfterType(nameQueue')
                /\ UNCHANGED <<stack, collected>>
           ELSE IF tool = "event" /\ ~has_nested_refs(docs[curFile][type_name])
           THEN /\ pc' = AfterType(nameQueue')
                /\ UNCHANGED <<stack, collected, warnings>>
           ELSE /\ collected' = <<[name |-> type_name, file |-> curFile]>>
                /\ stack' = <<[name |-> type_name, file |-> curFile,
                               todo |-> find_local_refs(docs[curFile][type_name])]>>
                /\ pc' = "dfs"
                /\ UNCHANGED warnings
    /\ UNCHANGED <<tool, docs, roots, fileQueue, crossRefs, curFile, types_to_inline,
                   loaded_schemas, all_schemas, required_schemas, refs_to_process, out>>
    /\ UNCHANGED rwVars
    /\ UNCHANGED sdkVars
    /\ UNCHANGED mainVars
    /\ UNCHANGED generated

\* variant: only the types being expanded right now count as collected
InCollected_on_stack(n, coll) == n \in {stack[i].name : i \in DOMAIN stack}

\* the test 'ref_name not in collected' / 'type_name in collected'
InCollected(n, coll) == n \in Names(coll)

\* one turn of 'for ref_name in (sorted) local_refs' of
\* get_type_with_dependencies, with the recursive call it makes
GetTypeLoop ==
    /\ tool \in {"api", "event"}
    /\ pc = "dfs"
    /\ Top.todo # {}
    /\ \E ref_name \in Top.todo :
        /\ tool = "api" => ref_name = MinRank(Top.todo)
        /\ LET rest == [Top EXCEPT !.todo = @ \ {ref_name}]
           IN IF InCollected(ref_name, collected)
              THEN /\ stack' = ReplaceTop(stack, rest)
                   /\ UNCHANGED <<collected, warnings>>
              ELSE IF ref_name \notin DOMAIN docs[Top.file]
              THEN /\ stack' = ReplaceTop(stack, rest)
                   /\ warnings' = warnings \cup {[kind |-> "type_not_found", what |-> ref_name]}
                   /\ UNCHANGED collected
              ELSE /\ collected' = Append(collected, [name |-> ref_name, file |-> Top.file])
                   /\ stack' = Append(ReplaceTop(stack, rest),
                                      [name |-> ref_name, file |-> Top.file,
                                       todo |-> find_local_refs(docs[Top.file][ref_name])])
                   /\ UNCHANGED warnings
    /\ UNCHANGED <<tool, docs, roots, pc, fileQueue, crossRefs, curFile, nameQueue,
                   types_to_inline, loaded_schemas, all_schemas, required_schemas,
                   refs_to_process, out>>
    /\ UNCHANGED rwVars
    /\ UNCHANGED sdkVars
    /\ UNCHANGED mainVars
    /\ UNCHANGED generated

\* 'return collected'; the outermost return is followed by
\* types_to_inline.update(deps)
GetTypeReturn ==
    /\ tool \in {"api", "event"}
    /\ pc = "dfs"
    /\ Top.todo = {}
    /\ stack' = Pop(stack)
    /\ IF Len(stack) = 1
       THEN /\ types_to_inline' = DictUpdate(types_to_inline, collected)
            /\ pc' = AfterType(nameQueue)
       ELSE UNCHANGED <<types_to_inline, pc>>
    /\ UNCHANGED <<tool, docs, roots, fileQueue, crossRefs, curFile, nameQueue, collected,
                   loaded_schemas, all_schemas, required_schemas, refs_to_process, out,
                   warnings>>
    /\ UNCHANGED rwVars
    /\ UNCHANGED sdkVars
    /\ UNCHANGED mainVars
    /\ UNCHANGED generated

\* f"{path.stem}-resolved.yaml", the name of the file written for a root
ResolvedName(f) ==
    CASE f = AccountApi -> "account-api-resolved.yaml"
      [] f = EscrowApi -> "escrow-api-resolved.yaml"
      [] f = CommonApi -> "common-api-resolved.yaml"
      [] f = AccountEvents -> "account-events-resolved.yaml"
      [] OTHER -> "common-events-resolved.yaml"

\* variant: the definitions are taken over as they are, without a copy
deepcopy_none(ids) == ids

\* deepcopy(x), by the objects of the loaded trees that the result still
\* shares with x: a deep copy shares none
deepcopy(ids) == {}

\* the types the working document was built from: those of the root document
\* (resolved = deepcopy(schema)) and the collected ones
\* (type_def = deepcopy(source_schemas[type_name]))
WorkingIds(f) ==
    {[file |-> f, name |-> n] : n \in DOMAIN docs[f]}
        \cup {[file |-> types_to_inline[i].file, name |-> types_to_inline[i].name] :
                  i \in DOMAIN types_to_inline}

\* the loaded trees after the rewriters ran in place on the working
\* document: an object shared with a loaded tree changes there too
InPlace(d, shared, schemas) ==
    [f \in DOMAIN d |->
        [n \in DOMAIN d[f] |->
            IF [file |-> f, name |-> n] \in shared
                  /\ \E i \in DOMAIN schemas : schemas[i].file = f /\ schemas[i].name = n
            THEN schemas[CHOOSE i \in DOMAIN schemas :
                            schemas[i].file = f /\ schemas[i].name = n].refs
            ELSE d[f][n]]]

\* resolve_api_schema from 'if not types_to_inline' to save_yaml
ApiEmit ==
    /\ tool = "api"
    /\ pc = "files"
    /\ fileQueue = <<>>
    /\ pc' = "done"
    /\ IF types_to_inline = <<>>
       THEN UNCHANGED <<out, docs, generated>>
       ELSE LET inl == [i \in DOMAIN types_to_inline |-> WithRefs(types_to_inline[i])]
                resolved == DictUpdate(OwnEntries(AccountApi), SortedItems(inl))
                F(r) == convert_cross_ref_api(r, Names(types_to_inline))
            IN /\ out' = [written |-> TRUE, paths |-> {},
                          schemas |-> MapEntryRefs(resolved, F),
                          xInlined |-> Sorted(Names(types_to_inline))]
               /\ docs' = InPlace(docs, deepcopy(WorkingIds(AccountApi)), out'.schemas)
               /\ generated' = generated \cup {ResolvedName(AccountApi)}
    /\ UNCHANGED <<tool, roots, fileQueue, crossRefs, curFile, nameQueue, stack,
                   collected, types_to_inline, loaded_schemas, all_schemas,
                   required_schemas, refs_to_process, warnings>>
    /\ UNCHANGED rwVars
    /\ UNCHANGED sdkVars
    /\ UNCHANGED mainVars

\* resolve_event_schema from 'if not types_to_inline' to save_yaml
EventEmit ==
    /\ tool = "event"
    /\ pc = "files"
    /\ fileQueue = <<>>
    /\ pc' = "done"
    /\ IF types_to_inline = <<>>
       THEN UNCHANGED <<out, docs, generated>>
       ELSE LET F(r) == convert_ref_event(r, Names(types_to_inline))
                inl == [i \in DOMAIN types_to_inline |-> WithRefs(types_to_inline[i])]
                resolved == DictUpdate(OwnEntries(AccountEvents), MapEntryRefs(inl, F))
            IN /\ out' = [written |-> TRUE, paths |-> {},
                          schemas |-> MapEntryRefs(MapEntryRefs(resolved, F), fix_ref_event),
                          xInlined |-> <<>>]
               /\ docs' = InPlace(docs, deepcopy(WorkingIds(AccountEvents)), out'.schemas)
               /\ generated' = generated \cup {ResolvedName(AccountEvents)}
    /\ UNCHANGED <<tool, roots, fileQueue, crossRefs, curFile, nameQueue, stack,
                   collected, types_to_inline, loaded_schemas, all_schemas,
                   required_schemas, refs_to_process, warnings>>
    /\ UNCHANGED rwVars
    /\ UNCHANGED sdkVars
    /\ UNCHANGED mainVars

\* ------------------------------------------------------------------------
\* extract-archive-schemas.py main and collect_type_with_deps
\* ------------------------------------------------------------------------
ArchiveStart ==
    /\ tool = "archive"
    /\ pc = "start"
    /\ IF roots = {}
       THEN /\ pc' = "done"
            /\ UNCHANGED nameQueue
       ELSE /\ nameQueue' = roots
            /\ pc' = "types"
    /\ UNCHANGED <<tool, docs, roots, fileQueue, crossRefs, curFile, stack, collected,
                   types_to_inline, loaded_schemas, all_schemas, required_schemas,
                   refs_to_process, out, warnings>>
    /\ UNCHANGED rwVars
    /\ UNCHANGED sdkVars
    /\ UNCHANGED mainVars
    /\ UNCHANGED generated

\* one turn of 'for type_name in all_archive_types' with the entry of
\* collect_type_with_deps(type_name, all_schemas, ...)
ArchiveNextType ==
    /\ tool = "archive"
    /\ pc = "types"
    /\ \E type_name \in nameQueue :
        /\ nameQueue' = nameQueue \ {type_name}
        /\ IF InCollected(type_name, collected) \/ type_name \notin DOMAIN docs[AccountApi]
           THEN UNCHANGED <<stack, collected, pc>>
           ELSE /\ collected' = Append(collected, [name |-> type_name, file |-> AccountApi])
                /\ stack' = <<[name |-> type_name, file |-> AccountApi,
                               todo |-> find_refs_in_type(docs[AccountApi][type_name])]>>
                /\ pc' = "dfs"
    /\ UNCHANGED <<tool, docs, roots, fileQueue, crossRefs, curFile, types_to_inline,
                   loaded_schemas, all_schemas, required_schemas, refs_to_process, out,
                   warnings>>
    /\ UNCHANGED rwVars
    /\ UNCHANGED sdkVars
    /\ UNCHANGED mainVars
    /\ UNCHANGED generated

\* one turn of 'for file_path, ref_name in refs' of collect_type_with_deps,
\* with the recursive call it makes
CollectLoop ==
    /\ tool = "archive"
    /\ pc = "dfs"
    /\ Top.todo # {}
    /\ \E ref \in Top.todo :
        LET rest == ReplaceTop(stack, [Top EXCEPT !.todo = @ \ {ref}])
            ctx == IF ref.file = NoFile THEN Top.file ELSE ref.file[1]
        IN IF InCollected(ref.name, collected)
           THEN /\ stack' = rest
                /\ UNCHANGED <<collected, loaded_schemas, warnings>>
           ELSE IF ref.file # NoFile /\ ref.file \notin loaded_schemas /\ ~PathExists(ref.file)
           THEN /\ stack' = rest
                /\ warnings' = warnings \cup {[kind |-> "could_not_load", what |-> ref.file]}
                /\ UNCHANGED <<collected, loaded_schemas>>
           ELSE /\ loaded_schemas' = IF ref.file = NoFile THEN loaded_schemas
                                     ELSE loaded_schemas \cup {ref.file}
                /\ UNCHANGED warnings
                /\ IF ref.name \in DOMAIN docs[ctx]
                   THEN /\ collected' = Append(collected, [name |-> ref.name, file |-> ctx])
                        /\ stack' = Append(rest, [name |-> ref.name, file |-> ctx,
                                                  todo |-> find_refs_in_type(docs[ctx][ref.name])])
                   ELSE /\ stack' = rest
                        /\ UNCHANGED collected
    /\ UNCHANGED <<tool, docs, roots, pc, fileQueue, crossRefs, curFile, nameQueue,
                   types_to_inline, all_schemas, required_schemas, refs_to_process, out>>
    /\ UNCHANGED rwVars
    /\ UNCHANGED sdkVars
    /\ UNCHANGED mainVars
    /\ UNCHANGED generated

CollectReturn ==
    /\ tool = "archive"
    /\ pc = "dfs"
    /\ Top.todo = {}
    /\ stack' = Pop(stack)
    /\ pc' = IF Len(stack) = 1 THEN "types" ELSE pc
    /\ UNCHANGED <<tool, docs, roots, fileQueue, crossRefs, curFile, nameQueue, collected,
                   types_to_inline, loaded_schemas, all_schemas, required_schemas,
                   refs_to_process, out, warnings>>
    /\ UNCHANGED rwVars
    /\ UNCHANGED sdkVars
    /\ UNCHANGED mainVars
    /\ UNCHANGED generated

\* main from 'collected_type_names = set(collected_types.keys())' to save_yaml
ArchiveEmit ==
    /\ tool = "archive"
    /\ pc = "types"
    /\ nameQueue = {}
    /\ pc' = "done"
    /\ LET F(r) == convert_ref_archive(r, Names(collected))
           conv == MapEntryRefs([i \in DOMAIN collected |-> WithRefs(collected[i])], F)
       IN out' = [written |-> TRUE, paths |-> {}, schemas |-> SortedItems(conv),
                  xInlined |-> <<>>]
    /\ generated' = generated \cup {"storyline-archives.yaml"}
    /\ UNCHANGED <<tool, docs, roots, fileQueue, crossRefs, curFile, nameQueue, stack,
                   collected, types_to_inline, loaded_schemas, all_schemas,
                   required_schemas, refs_to_process, warnings>>
    /\ UNCHANGED rwVars
    /\ UNCHANGED sdkVars
    /\ UNCHANGED mainVars

\* ------------------------------------------------------------------------
\* generate-client-schema.py merge_schemas, collect_required_schemas, main
\* ------------------------------------------------------------------------
\* sorted(schema_dir.glob('*-api.yaml'))
FileRank(f) == CASE f = AccountApi -> 1 [] f = CommonApi -> 2 [] f = EscrowApi -> 3
                 [] OTHER -> 4
RECURSIVE SortedFiles(_)
SortedFiles(S) ==
    IF S = {} THEN <<>>
    ELSE LET m == CHOOSE x \in S : \A y \in S : FileRank(x) <= FileRank(y)
         IN <<m>> \o SortedFiles(S \ {m})

\* 'if schema_name not in all_schemas: all_schemas[schema_name] = schema_def'
RECURSIVE AddFirstWins(_, _)
AddFirstWins(d, u) ==
    IF u = <<>> THEN d
    ELSE AddFirstWins(IF Head(u).name \in Names(d) THEN d ELSE Append(d, Head(u)), Tail(u))

FileEntries(f) == [i \in 1..Len(OwnOrder(f)) |-> [name |-> OwnOrder(f)[i], file |-> f]]

\* parse_service_schema: the file's content, or nothing with a warning when
\* yaml.load raises
Parsed(f) == f \notin malformed
ParseWarnings(f) == IF Parsed(f) THEN {} ELSE {[kind |-> "failed_to_parse", what |-> <<f>>]}

\* merge_schemas up to the loop over the service schemas
ClientStart ==
    /\ tool = "client"
    /\ pc = "start"
    /\ IF CommonApi \in DOMAIN docs
       THEN /\ all_schemas' = IF Parsed(CommonApi) THEN FileEntries(CommonApi) ELSE <<>>
            /\ warnings' = warnings \cup ParseWarnings(CommonApi)
       ELSE /\ all_schemas' = <<>>
            /\ UNCHANGED warnings
    /\ fileQueue' = SortedFiles(DOMAIN docs \cap ApiFileNames)
    /\ pc' = "files"
    /\ UNCHANGED <<tool, docs, roots, crossRefs, curFile, nameQueue, stack, collected,
                   types_to_inline, loaded_schemas, required_schemas, refs_to_process,
                   out>>
    /\ UNCHANGED rwVars
    /\ UNCHANGED sdkVars
    /\ UNCHANGED mainVars
    /\ UNCHANGED generated

\* one turn of 'for schema_path in sorted(...)' up to the 'while
\* refs_to_process' of collect_required_schemas for the file's endpoint
ClientNextFile ==
    /\ tool = "client"
    /\ pc = "files"
    /\ fileQueue # <<>>
    /\ LET f == Head(fileQueue)
       IN /\ fileQueue' = Tail(fileQueue)
          /\ warnings' = warnings \cup ParseWarnings(f)
          /\ IF Parsed(f)
             THEN /\ curFile' = f
                  /\ all_schemas' = AddFirstWins(all_schemas, FileEntries(f))
                  /\ out' = [out EXCEPT !.paths = @ \cup roots[f]]
                  /\ refs_to_process' = get_refs_from_schema(roots[f])
                  /\ pc' = IF get_refs_from_schema(roots[f]) = {} THEN "files" ELSE "collect"
             ELSE UNCHANGED <<curFile, all_schemas, out, refs_to_process, pc>>
    /\ UNCHANGED <<tool, docs, roots, crossRefs, nameQueue, stack, collected,
                   types_to_inline, loaded_schemas, required_schemas>>
    /\ UNCHANGED rwVars
    /\ UNCHANGED sdkVars
    /\ UNCHANGED mainVars
    /\ UNCHANGED generated

\* one turn of 'while refs_to_process' of collect_required_schemas
CollectRequiredPop ==
    /\ tool = "client"
    /\ pc = "collect"
    /\ \E ref_name \in refs_to_process :
        LET rest == refs_to_process \ {ref_name}
        IN IF ref_name \in required_schemas
           THEN /\ refs_to_process' = rest
                /\ pc' = IF rest = {} THEN "files" ELSE "collect"
                /\ UNCHANGED required_schemas
           ELSE LET more == IF ref_name \in Names(all_schemas)
                            THEN get_refs_from_schema(
                                    docs[DictGet(all_schemas, ref_name).file][ref_name])
                            ELSE {}
                IN /\ required_schemas' = required_schemas \cup {ref_name}
                   /\ refs_to_process' = rest \cup more
                   /\ pc' = IF rest \cup more = {} THEN "files" ELSE "collect"
    /\ UNCHANGED <<tool, docs, roots, fileQueue, crossRefs, curFile, nameQueue, stack,
                   collected, types_to_inline, loaded_schemas, all_schemas, out, warnings>>
    /\ UNCHANGED rwVars
    /\ UNCHANGED sdkVars
    /\ UNCHANGED mainVars
    /\ UNCHANGED generated

\* merge_schemas from 'Add only required schemas', then main: the
\* rewrite_external_refs of the consolidated schema and the two dumps
ClientFinish ==
    /\ tool = "client"
    /\ pc = "files"
    /\ fileQueue = <<>>
    /\ pc' = "done"
    /\ LET names == Sorted(required_schemas \cap Names(all_schemas))
           consolidated == [i \in 1..Len(names) |-> WithRefs(DictGet(all_schemas, names[i]))]
       IN out' = [written |-> TRUE,
                  paths |-> {rewrite_external_ref(r) : r \in out.paths},
                  schemas |-> MapEntryRefs(consolidated, rewrite_external_ref),
                  xInlined |-> <<>>]
    /\ generated' = generated \cup {"bannou-client-api.yaml", "bannou-client-api.json"}
    /\ UNCHANGED <<tool, docs, roots, fileQueue, crossRefs, curFile, nameQueue, stack,
                   collected, types_to_inline, loaded_schemas, all_schemas,
                   required_schemas, refs_to_process, warnings>>
    /\ UNCHANGED rwVars
    /\ UNCHANGED sdkVars
    /\ UNCHANGED mainVars

\* ------------------------------------------------------------------------
\* Initial states: the schema files on disk when the script starts
\* ------------------------------------------------------------------------
Place(a, b, c, d) ==
    [t \in Types |-> CASE t = "Account" -> a [] t = "Address" -> b
                       [] t = "Country" -> c [] t = "Region" -> d]

\* the reference a root document writes to reach type u
RootRef(place, spell, u) ==
    MkRef(spell \o <<IF place[u] = Nowhere THEN CommonApi ELSE place[u]>>, CS, u)
RootChoices == {{"Account"}, {"Address"}, {"Account", "Region"}, {"Address", "Country"}}

SourcePlacements ==
    {Place(CommonApi, CommonApi, CommonApi, CommonApi),
     Place(CommonApi, CommonApi, CommonApi, EscrowApi),
     Place(CommonApi, CommonApi, EscrowApi, EscrowApi),
     Place(CommonApi, CommonApi, CommonApi, Nowhere)}

\* resolve-api-refs.py on account-api.yaml, whose own type holds allOf
\* references to the root types and a plain reference to Country
InitApi ==
    \E g \in Graphs, place \in SourcePlacements, spell \in Spellings,
       rootTypes \in RootChoices, missing \in SUBSET {EscrowApi} :
        /\ missing \subseteq PlacedFiles(place)
        /\ LET allOf == {RootRef(place, spell, u) : u \in rootTypes}
               plain == {RootRef(place, spell, "Country")}
           IN BundleInit("api",
                         Universe(g, place, spell, PlacedFiles(place) \ missing)
                            @@ (AccountApi :> (RootType :> (allOf \cup plain))),
                         allOf)
        /\ RewriteIdle
        /\ SdkIdle

\* resolve-event-refs.py on account-events.yaml
InitEvent ==
    \E g \in Graphs, place \in SourcePlacements, spell \in Spellings,
       rootTypes \in RootChoices, missing \in SUBSET {EscrowApi} :
        /\ missing \subseteq PlacedFiles(place)
        /\ BundleInit("event",
                      Universe(g, place, spell, PlacedFiles(place) \ missing)
                         @@ (AccountEvents :>
                               (RootType :> {RootRef(place, spell, u) : u \in rootTypes})),
                      {})
        /\ RewriteIdle
        /\ SdkIdle

ArchivePlacements ==
    {Place(AccountApi, CommonApi, CommonApi, CommonApi),
     Place(AccountApi, AccountApi, CommonApi, CommonApi),
     Place(AccountApi, CommonApi, CommonApi, EscrowApi),
     Place(AccountApi, CommonApi, CommonApi, Nowhere)}

\* extract-archive-schemas.py with the plugin schema account-api.yaml
InitArchive ==
    \E g \in Graphs, place \in ArchivePlacements, spell \in Spellings,
       missing \in SUBSET {EscrowApi}, marked \in SUBSET {"Account", "Address"} :
        /\ missing \subseteq PlacedFiles(place)
        /\ marked \subseteq {t \in Types : place[t] = AccountApi}
        /\ BundleInit("archive",
                      Universe(g, place, spell, PlacedFiles(place) \ missing),
                      marked)
        /\ RewriteIdle
        /\ SdkIdle

ClientPlacements ==
    {Place(AccountApi, AccountApi, AccountApi, AccountApi),
     Place(AccountApi, EscrowApi, EscrowApi, EscrowApi),
     Place(AccountApi, AccountApi, CommonApi, CommonApi),
     Place(EscrowApi, AccountApi, CommonApi, EscrowApi)}
ClientFiles == {AccountApi, CommonApi, EscrowApi}
NoEndpoint == "none"

\* generate-client-schema.py: account-api.yaml and escrow-api.yaml have at
\* most one client-accessible endpoint, whose schema is a reference
InitClient ==
    \E g \in Graphs, place \in ClientPlacements, spell \in Spellings,
       e1 \in {NoEndpoint, "Account", "Address"}, e2 \in {NoEndpoint, "Address"} :
        LET Endpoint(f, e) == IF e = NoEndpoint THEN {} ELSE {RefTo(place, spell, f, e)}
        IN /\ BundleInit("client",
                         Universe(g, place, spell, ClientFiles),
                         (AccountApi :> Endpoint(AccountApi, e1))
                            @@ (EscrowApi :> Endpoint(EscrowApi, e2))
                            @@ (CommonApi :> {}))
           /\ RewriteIdle
           /\ SdkIdle

Init == InitClient \/ InitApi \/ InitEvent \/ InitArchive

Next ==
    \/ ResolveStart
    \/ ResolveNextFile
    \/ ResolveNextType
    \/ GetTypeLoop
    \/ GetTypeReturn
    \/ ApiEmit
    \/ EventEmit
    \/ ArchiveStart
    \/ ArchiveNextType
    \/ CollectLoop
    \/ CollectReturn
    \/ ArchiveEmit
    \/ ClientStart
    \/ ClientNextFile
    \/ CollectRequiredPop
    \/ ClientFinish

Spec == Init /\ [][Next]_vars

\* The collectors alone, on the universes of at most MaxCycleEdges references
\* whose types all live in one source file; a script is one sequential
\* process that takes its next step as long as it has one
CollectGraphs == {g \in SUBSET CandEdges : Cardinality(g) <= MaxCycleEdges}
OneFile == Place(CommonApi, CommonApi, CommonApi, CommonApi)
InitCollect ==
    /\ RewriteIdle
    /\ SdkIdle
    /\ \E g \in CollectGraphs, t \in {"api", "event", "archive"}, root \in {"Account", "Address"} :
          IF t = "archive"
          THEN LET place == Place(AccountApi, CommonApi, CommonApi, CommonApi)
               IN BundleInit(t, Universe(g, place, DotDotSlash, PlacedFiles(place)),
                             {"Account", root})
          ELSE LET allOf == {RootRef(OneFile, DotDotSlash, root)}
               IN BundleInit(t, Universe(g, OneFile, DotDotSlash, {CommonApi})
                                   @@ (RootFile(t) :> (RootType :> allOf)),
                             IF t = "api" THEN allOf ELSE {})
NextCollect ==
    \/ ResolveStart
    \/ ResolveNextFile
    \/ ResolveNextType
    \/ GetTypeLoop
    \/ GetTypeReturn
    \/ ApiEmit
    \/ EventEmit
    \/ ArchiveStart
    \/ ArchiveNextType
    \/ CollectLoop
    \/ CollectReturn
    \/ ArchiveEmit
FairCollect == InitCollect /\ [][NextCollect]_vars /\ WF_vars(NextCollect)

\* ------------------------------------------------------------------------
\* embed-meta-schemas.py: bundle_schema and create_json_schema.  A schema
\* object is [ref, refFirst, kids]: ref holds the value of its '$ref' key
\* (no element when it has none), kids the schema objects below its other
\* keys in document order, refFirst whether '$ref' comes before them.
\* ------------------------------------------------------------------------
JsonDefs == "/$defs/"
\* {'type': 'object'}, and the placeholder {}: objects without references
PlainObject == [ref |-> {}, refFirst |-> TRUE, kids |-> <<>>]

\* resolve_ref for a '#/...' pointer into root_schema; root_schema holds
\* components/schemas only, so any other pointer finds nothing
resolve_ref(r, root_schema) ==
    IF r.head = <<>> /\ r.path = CS /\ r.name \in DOMAIN root_schema
    THEN root_schema[r.name]
    ELSE PlainObject

\* ref_path.replace('#/components/schemas/', '#/$defs/')
replace_with_defs(r) == IF r.path = CS THEN MkRef(r.head, JsonDefs, r.name) ELSE r

\* bundle_schema returns the bundled object; defs and visited are updated in
\* place, so the operators yield them too, with the list of the type names
\* in the order their bodies were expanded.  per_branch tells whether a
\* recursive call gets visited.copy(), as in the code, or visited itself.
RECURSIVE Bundle(_, _, _, _, _, _)
RECURSIVE BundleValues(_, _, _, _, _, _)

\* variant: a type is expanded again although $defs holds it already
InDefs_never(type_name, defs) == FALSE

\* the test 'type_name not in defs', negated
InDefs(type_name, defs) == type_name \in DOMAIN defs

\* the value of a recursive call, computed once
Only(S) == CHOOSE x \in S : TRUE

\* the '$ref' key of a schema object
BundleRef(refs, root_schema, defs, visited, expanded, per_branch) ==
    IF refs = {}
    THEN [ref |-> {}, defs |-> defs, visited |-> visited, expanded |-> expanded]
    ELSE LET ref_path == CHOOSE r \in refs : TRUE
             seen == visited \cup {ref_path}
             type_name == ref_path.name
         IN IF ref_path \in visited
            THEN [ref |-> {replace_with_defs(ref_path)}, defs |-> defs,
                  visited |-> visited, expanded |-> expanded]
            ELSE IF ref_path.head = <<>> /\ ref_path.path = CS
            THEN IF InDefs(type_name, defs)
                 THEN [ref |-> {MkRef(<<>>, JsonDefs, type_name)}, defs |-> defs,
                       visited |-> seen, expanded |-> expanded]
                 ELSE Only({[ref |-> {MkRef(<<>>, JsonDefs, type_name)},
                             defs |-> [sub.defs EXCEPT ![type_name] = sub.res],
                             visited |-> IF per_branch THEN seen ELSE sub.visited,
                             expanded |-> sub.expanded] :
                            sub \in {Bundle(resolve_ref(ref_path, root_schema), root_schema,
                                            defs @@ (type_name :> PlainObject), seen,
                                            Append(expanded, type_name), per_branch)}})
            ELSE [ref |-> {}, defs |-> defs, visited |-> seen, expanded |-> expanded]
\* the values of the other keys, each bundled by a recursive call
BundleValues(values, root_schema, defs, visited, expanded, per_branch) ==
    IF values = <<>>
    THEN [res |-> <<>>, defs |-> defs, visited |-> visited, expanded |-> expanded]
    ELSE Only({Only({[res |-> <<h.res>> \o t.res, defs |-> t.defs, visited |-> t.visited,
                      expanded |-> t.expanded] :
                     t \in {BundleValues(Tail(values), root_schema, h.defs,
                                         IF per_branch THEN visited ELSE h.visited,
                                         h.expanded, per_branch)}}) :
               h \in {Bundle(Head(values), root_schema, defs, visited, expanded,
                             per_branch)}})
Bundle(schema_def, root_schema, defs, visited, expanded, per_branch) ==
    IF schema_def.refFirst
    THEN Only({Only({[res |-> [ref |-> r.ref, refFirst |-> TRUE, kids |-> k.res],
                      defs |-> k.defs, visited |-> k.visited, expanded |-> k.expanded] :
                     k \in {BundleValues(schema_def.kids, root_schema, r.defs, r.visited,
                                         r.expanded, per_branch)}}) :
               r \in {BundleRef(schema_def.ref, root_schema, defs, visited, expanded,
                                per_branch)}})
    ELSE Only({Only({[res |-> [ref |-> r.ref, refFirst |-> FALSE, kids |-> k.res],
                      defs |-> r.defs, visited |-> r.visited, expanded |-> r.expanded] :
                     r \in {BundleRef(schema_def.ref, root_schema, k.defs, k.visited,
                                      k.expanded, per_branch)}}) :
               k \in {BundleValues(schema_def.kids, root_schema, defs, visited, expanded,
                                   per_branch)}})

\* bundle_schema as the code has it: every recursive call gets visited.copy()
bundle_schema(schema_def, root_schema, defs, visited) ==
    Bundle(schema_def, root_schema, defs, visited, <<>>, TRUE)

\* create_json_schema: the JSON Schema of one request or response body
NoDefs == <<>>
create_json_schema(schema_def, root_schema) ==
    IF schema_def = {} THEN [bundled |-> PlainObject, defs |-> NoDefs, expanded |-> <<>>]
    ELSE Only({[bundled |-> b.res, defs |-> b.defs, expanded |-> b.expanded] :
               b \in {bundle_schema(CHOOSE n \in schema_def : TRUE, root_schema,
                                    NoDefs, {})}})

\* Inputs: the references a schema object can hold, objects with no key but
\* '$ref', and objects with up to MaxProps properties
MetaRefs == {MkRef(<<>>, CS, "Account"), MkRef(<<>>, CS, "Address"),
             MkRef(<<CommonApi>>, CS, "Account"), MkRef(<<>>, DefsPath, "Account")}
MetaLeaves == {[ref |-> r, refFirst |-> TRUE, kids |-> <<>>] :
                  r \in {{}} \cup {{x} : x \in MetaRefs}}
MetaProps == UNION {[1..n -> MetaLeaves] : n \in 0..MaxProps}
MetaObjects == {[ref |-> r, refFirst |-> f, kids |-> k] :
                   r \in {{}} \cup {{x} : x \in MetaRefs}, f \in BOOLEAN, k \in MetaProps}
MetaSchemas == {o \in MetaObjects : (o.ref = {} \/ o.kids = <<>>) => o.refFirst}

\* one operation of {service}-api.yaml: its body schema (or none) and the
\* components/schemas of the file, where Address may be missing
InitMeta ==
    /\ RewriteIdle
    /\ SdkIdle
    /\ \E account \in MetaSchemas, address \in MetaLeaves, hasAddress \in BOOLEAN,
          body \in SUBSET MetaLeaves :
          /\ Cardinality(body) <= 1
          /\ BundleInit("meta",
                        IF hasAddress
                        THEN ("Account" :> account) @@ ("Address" :> address)
                        ELSE ("Account" :> account),
                        body)

\* process_schema: x-request-schema-json / x-response-schema-json of the
\* operation
CreateJsonSchema ==
    /\ tool = "meta"
    /\ pc = "start"
    /\ pc' = "done"
    /\ out' = [written |-> TRUE] @@ create_json_schema(roots, docs)
    /\ generated' = generated \cup {"account-api-meta.yaml"}
    /\ UNCHANGED <<tool, docs, roots, fileQueue, crossRefs, curFile, nameQueue, stack,
                   collected, types_to_inline, loaded_schemas, all_schemas,
                   required_schemas, refs_to_process, warnings>>
    /\ UNCHANGED rwVars
    /\ UNCHANGED sdkVars
    /\ UNCHANGED mainVars

NextMeta == CreateJsonSchema
SpecMeta == InitMeta /\ [][NextMeta]_vars
\* process_schema runs to its end once it is started
FairMeta == InitMeta /\ [][NextMeta]_vars /\ WF_vars(NextMeta)

\* ------------------------------------------------------------------------
\* Universes whose types live in one file f and refer to each other in any
\* of the forms  #/..., ./#/...  and  f#/...
\* ------------------------------------------------------------------------
SelfForms(f) == {<<>>, DotSlash, <<f>>}
FormDoc(g, form) ==
    [t \in Types |-> {MkRef(form[e], CS, e[2]) : e \in {x \in g : x[1] = t}}]
InitForms ==
    /\ RewriteIdle
    /\ SdkIdle
    /\ \E g \in CollectGraphs, root \in {"Account", "Address"} :
          \/ \E form \in [g -> SelfForms(CommonApi)], spell \in Spellings :
                BundleInit("event",
                           (CommonApi :> FormDoc(g, form))
                              @@ (AccountEvents :>
                                    (RootType :> {MkRef(spell \o <<CommonApi>>, CS, root)})),
                           {})
          \/ \E form \in [g -> SelfForms(AccountApi)] :
                BundleInit("archive", (AccountApi :> FormDoc(g, form)), {root})
NextForms ==
    \/ ResolveStart
    \/ ResolveNextFile
    \/ ResolveNextType
    \/ GetTypeLoop
    \/ GetTypeReturn
    \/ EventEmit
    \/ ArchiveStart
    \/ ArchiveNextType
    \/ CollectLoop
    \/ CollectReturn
    \/ ArchiveEmit
SpecForms == InitForms /\ [][NextForms]_vars

\* ------------------------------------------------------------------------
\* Universes in which a type name is defined by more than one document:
\* common-api.yaml and escrow-api.yaml both define Account and Address, and
\* the root document may define types of these names itself; escrow-api.yaml
\* may be missing from the schema directory
\* ------------------------------------------------------------------------
SameNameRootRefs ==
    {MkRef(DotDotSlash \o <<f>>, CS, n) : f \in {CommonApi, EscrowApi}, n \in {"Account"}}
        \cup {MkRef(DotDotSlash \o <<CommonApi>>, CS, "Address")}
InitSameName ==
    /\ RewriteIdle
    /\ SdkIdle
    /\ \E t \in {"api", "event"}, refs \in SUBSET SameNameRootRefs, allOf \in SUBSET SameNameRootRefs,
          own \in SUBSET {"Account", "Address"},
          commonRefs \in SUBSET {LocalRef("Address"), LocalRef("Country")},
          escrowRefs \in SUBSET {LocalRef("Address"), LocalRef("Region")},
          missing \in BOOLEAN :
          /\ refs # {}
          /\ allOf \subseteq refs
          /\ t = "event" => allOf = {}
          /\ missing => escrowRefs = {}
          /\ BundleInit(t,
                (CommonApi :> [n \in {"Account", "Address", "Country"} |->
                                  IF n = "Account" THEN commonRefs ELSE {}])
                  @@ (IF missing THEN <<>>
                      ELSE (EscrowApi :> [n \in {"Account", "Address", "Region"} |->
                                             IF n = "Account" THEN escrowRefs ELSE {}]))
                  @@ (RootFile(t) :> [n \in {RootType} \cup own |->
                                         IF n = RootType THEN refs ELSE {}]),
                allOf)
NextSameName ==
    \/ ResolveStart
    \/ ResolveNextFile
    \/ ResolveNextType
    \/ GetTypeLoop
    \/ GetTypeReturn
    \/ ApiEmit
    \/ EventEmit
SpecSameName == InitSameName /\ [][NextSameName]_vars

\* ------------------------------------------------------------------------
\* The scripts as processes: arguments, parse failures and the exit status
\* ------------------------------------------------------------------------
\* resolve-api-refs.py reads sys.argv[1] as the service name and no other
\* argument; StrictFlag is an argument a caller passes to ask for strictness
StrictFlag == "--strict"
Argvs == {<<>>, <<"account">>, <<StrictFlag>>, <<"account", StrictFlag>>,
          <<"escrow", StrictFlag>>}
\* schema_dir / f"{specific_service}-api.yaml"
ServiceFile(service) ==
    CASE service = "account" -> AccountApi
      [] service = "escrow" -> EscrowApi
      [] service = "common" -> CommonApi
      [] OTHER -> "--strict-api.yaml"

\* generated_dir / f"{specific_service}-api-resolved.yaml"
OldFile(service) ==
    CASE service = "account" -> "account-api-resolved.yaml"
      [] service = "escrow" -> "escrow-api-resolved.yaml"
      [] service = "common" -> "common-api-resolved.yaml"
      [] OTHER -> "--strict-api-resolved.yaml"
\* generated_dir.glob('*-api-resolved.yaml')
ApiResolvedNames == {"account-api-resolved.yaml", "escrow-api-resolved.yaml",
                     "common-api-resolved.yaml", "--strict-api-resolved.yaml"}
\* the files an earlier run has left in schemas/Generated/
OldFiles == {"account-api-resolved.yaml", "escrow-api-resolved.yaml",
             "account-events-resolved.yaml"}
\* variant: nothing is cleaned up
CleanUp_none(files, args) == files
\* 'Clean up old resolved API files'
CleanUp(files, args) ==
    IF Len(args) > 0 THEN files \ {OldFile(args[1])} ELSE files \ ApiResolvedNames

\* main of resolve-api-refs.py up to the call of resolve_api_schema for
\* account-api.yaml. The only api file with allOf items is account-api.yaml:
\* for the other files of api_files resolve_api_schema returns None at its
\* first test.
ApiMain ==
    /\ tool = "api"
    /\ pc = "main"
    /\ IF Len(argv) > 0
       THEN LET api_file == ServiceFile(argv[1])
            IN IF api_file = CommonApi
               THEN pc' = "done" /\ UNCHANGED exit_code
               ELSE IF api_file \notin DOMAIN docs
               THEN pc' = "exited" /\ exit_code' = 1
               ELSE /\ pc' = IF api_file = AccountApi THEN "start" ELSE "done"
                    /\ UNCHANGED exit_code
       ELSE pc' = "start" /\ UNCHANGED exit_code
    /\ UNCHANGED <<tool, docs, roots, fileQueue, crossRefs, curFile, nameQueue, stack,
                   collected, types_to_inline, loaded_schemas, all_schemas,
                   required_schemas, refs_to_process, out, warnings>>
    /\ generated' = CleanUp(generated, argv)
    /\ UNCHANGED <<argv, malformed>>
    /\ UNCHANGED rwVars
    /\ UNCHANGED sdkVars

\* main of resolve-api-refs.py from the summary to its end
ApiMainExit ==
    /\ tool = "api"
    /\ pc = "done"
    /\ pc' = "exited"
    /\ exit_code' = 0
    /\ UNCHANGED <<tool, docs, roots, fileQueue, crossRefs, curFile, nameQueue, stack,
                   collected, types_to_inline, loaded_schemas, all_schemas,
                   required_schemas, refs_to_process, out, warnings>>
    /\ UNCHANGED <<argv, malformed, generated>>
    /\ UNCHANGED rwVars
    /\ UNCHANGED sdkVars

\* main of generate-client-schema.py after the two output files are written
ClientMainExit ==
    /\ tool = "client"
    /\ pc = "done"
    /\ pc' = "exited"
    /\ exit_code' = 0
    /\ UNCHANGED <<tool, docs, roots, fileQueue, crossRefs, curFile, nameQueue, stack,
                   collected, types_to_inline, loaded_schemas, all_schemas,
                   required_schemas, refs_to_process, out, warnings>>
    /\ UNCHANGED <<argv, malformed, generated>>
    /\ UNCHANGED rwVars
    /\ UNCHANGED sdkVars

\* resolve-api-refs.py started with arguments; escrow-api.yaml may be missing
MainRootRefs ==
    {MkRef(DotDotSlash \o <<CommonApi>>, CS, n) : n \in {"Account", "Address"}}
        \cup {MkRef(DotDotSlash \o <<EscrowApi>>, CS, "Region")}
InitMain ==
    /\ RewriteIdle
    /\ SdkIdle
    /\ \E allOf \in SUBSET MainRootRefs,
          commonRefs \in SUBSET {LocalRef("Address"), LocalRef("Country")},
          missing \in BOOLEAN, a \in Argvs, old \in SUBSET OldFiles :
          /\ allOf # {}
          /\ BundleState("api",
                (CommonApi :> [n \in {"Account", "Address", "Country"} |->
                                  IF n = "Account" THEN commonRefs ELSE {}])
                  @@ (IF missing THEN <<>> ELSE (EscrowApi :> [n \in {"Region"} |-> {}]))
                  @@ (AccountApi :> [n \in {RootType} |-> allOf]),
                allOf)
          /\ pc = "main"
          /\ argv = a
          /\ malformed = {}
          /\ exit_code = NoExit
          /\ generated = old
NextMain ==
    \/ ApiMain
    \/ ResolveStart
    \/ ResolveNextFile
    \/ ResolveNextType
    \/ GetTypeLoop
    \/ GetTypeReturn
    \/ ApiEmit
    \/ ApiMainExit
SpecMain == InitMain /\ [][NextMain]_vars

\* generate-client-schema.py on a schema directory in which some files are
\* not parseable YAML
InitParse ==
    /\ RewriteIdle
    /\ SdkIdle
    /\ \E g \in CollectGraphs, place \in ClientPlacements,
          e1 \in {NoEndpoint, "Account", "Address"}, e2 \in {NoEndpoint, "Address"},
          bad \in SUBSET ClientFiles :
        LET Endpoint(f, e) == IF e = NoEndpoint THEN {} ELSE {RefTo(place, DotDotSlash, f, e)}
        IN /\ BundleState("client",
                          Universe(g, place, DotDotSlash, ClientFiles),
                          (AccountApi :> Endpoint(AccountApi, e1))
                             @@ (EscrowApi :> Endpoint(EscrowApi, e2))
                             @@ (CommonApi :> {}))
           /\ pc = "start"
           /\ argv = <<>>
           /\ malformed = bad
           /\ exit_code = NoExit
           /\ generated = {}
NextParse ==
    \/ ClientStart
    \/ ClientNextFile
    \/ CollectRequiredPop
    \/ ClientFinish
    \/ ClientMainExit
SpecParse == InitParse /\ [][NextParse]_vars

\* ------------------------------------------------------------------------
\* The three bundlers that edit a working copy: resolve-api-refs.py,
\* resolve-event-refs.py and embed-meta-schemas.py
\* ------------------------------------------------------------------------
InitFrame == InitSameName \/ InitMeta
NextFrame ==
    \/ ResolveStart
    \/ ResolveNextFile
    \/ ResolveNextType
    \/ GetTypeLoop
    \/ GetTypeReturn
    \/ ApiEmit
    \/ EventEmit
    \/ CreateJsonSchema
SpecFrame == InitFrame /\ [][NextFrame]_vars

\* ------------------------------------------------------------------------
\* generate-unreal-sdk.py: the orchestrator of the three generation steps
\* ------------------------------------------------------------------------
StepScripts == <<"generate-client-schema.py", "generate-unreal-protocol.py",
                 "generate-unreal-types.py">>
StepPc == <<"step1", "step2", "step3">>
\* the files each step is documented to produce
StepOutputs ==
    <<{"bannou-client-api.yaml", "bannou-client-api.json"},
      {"sdks/unreal/Generated/BannouProtocol.h"},
      {"sdks/unreal/Generated/BannouTypes.h", "sdks/unreal/Generated/BannouEnums.h",
       "sdks/unreal/Generated/BannouEndpoints.h", "sdks/unreal/Generated/BannouEvents.h"}>>
\* verify_outputs: expected_files
ExpectedFiles == StepOutputs[1] \cup StepOutputs[2] \cup StepOutputs[3]
\* the return codes a child process ends with
ReturnCodes == {0, 1, 2}

\* variant: the return code of the child is not looked at
run_script_any(returncode) == TRUE

\* run_script: the child ran to its end with this return code
run_script(returncode) == returncode = 0

\* verify_outputs
verify_outputs == ExpectedFiles \subseteq generated

\* step n of main: the test that the script exists, run_script and the test
\* of its result.  The child writes any of its files and ends with any code.
RunStep(n) ==
    /\ tool = "unreal-sdk"
    /\ pc = StepPc[n]
    /\ IF StepScripts[n] \notin scripts
       THEN /\ exit_code' = 1
            /\ pc' = "exited"
            /\ UNCHANGED <<returncodes, generated>>
       ELSE \E rc \in ReturnCodes, written \in SUBSET StepOutputs[n] :
            /\ returncodes' = Append(returncodes, rc)
            /\ generated' = generated \cup written
            /\ IF run_script(rc)
               THEN /\ pc' = IF n < 3 THEN StepPc[n + 1] ELSE "verify"
                    /\ UNCHANGED exit_code
               ELSE /\ exit_code' = 1
                    /\ pc' = "exited"
    /\ UNCHANGED <<tool, docs, roots, fileQueue, crossRefs, curFile, nameQueue, stack,
                   collected, types_to_inline, loaded_schemas, all_schemas,
                   required_schemas, refs_to_process, out, warnings>>
    /\ UNCHANGED <<argv, malformed, scripts, reported>>
    /\ UNCHANGED rwVars
SdkStep1 == RunStep(1)
SdkStep2 == RunStep(2)
SdkStep3 == RunStep(3)

\* main from verify_outputs to its end
SdkVerify ==
    /\ tool = "unreal-sdk"
    /\ pc = "verify"
    /\ pc' = "exited"
    /\ IF verify_outputs
       THEN reported' = TRUE /\ exit_code' = 0
       ELSE exit_code' = 1 /\ UNCHANGED reported
    /\ UNCHANGED <<tool, docs, roots, fileQueue, crossRefs, curFile, nameQueue, stack,
                   collected, types_to_inline, loaded_schemas, all_schemas,
                   required_schemas, refs_to_process, out, warnings>>
    /\ UNCHANGED <<argv, malformed, generated, scripts, returncodes>>
    /\ UNCHANGED rwVars

\* the scripts that exist and the files left by an earlier run
InitSdk ==
    /\ RewriteIdle
    /\ BundleState("unreal-sdk", <<>>, {})
    /\ pc = StepPc[1]
    /\ argv = <<>>
    /\ malformed = {}
    /\ exit_code = NoExit
    /\ generated \in {{}, ExpectedFiles, ExpectedFiles \ StepOutputs[2]}
    /\ scripts \in SUBSET {StepScripts[i] : i \in 1..3}
    /\ returncodes = <<>>
    /\ reported = FALSE
NextSdk ==
    \/ SdkStep1
    \/ SdkStep2
    \/ SdkStep3
    \/ SdkVerify
SpecSdk == InitSdk /\ [][NextSdk]_vars

\* ------------------------------------------------------------------------
\* generate-resource-templates.py: the ValidPaths of an archive type.
\* docs holds components/schemas of the API schema, roots the archive type,
\* stack the calls of traverse_schema that have not returned, out.paths the
\* keys of valid_paths (a key is the sequence of its property names).
\* ------------------------------------------------------------------------
MaxDepth == 10
DepthExceeded_never(depth) == FALSE
DepthExceeded(depth) == depth > MaxDepth

TypeNames == <<"T1", "T2", "T3", "T4", "T5", "T6", "T7", "T8", "T9", "T10",
               "T11", "T12", "T13", "T14", "T15">>
\* the type every allOf composition of the input starts from
BaseType == "Base"
ScalarNode == [ref |-> {}, allOf |-> <<>>, props |-> <<>>, type |-> "string"]
RefNode(n) == [ref |-> {n}, allOf |-> <<>>, props |-> <<>>, type |-> ""]
ObjectNode(props) == [ref |-> {}, allOf |-> <<>>, props |-> props, type |-> "object"]
AllOfNode(subs) == [ref |-> {}, allOf |-> subs, props |-> <<>>, type |-> ""]
Prop(name, schema) == [name |-> name, schema |-> schema]

\* resolve_ref for '#/components/schemas/N': the type, or None
None == [ref |-> {}, allOf |-> <<>>, props |-> <<>>, type |-> "None"]
resolve_ref_templates(ref, current_schema) ==
    IF ref \in DOMAIN current_schema THEN current_schema[ref] ELSE None
\* a resolved property type is traversed if it is an object, or has
\* 'properties' or 'allOf'
IsTraversable(resolved) ==
    resolved.type = "object" \/ resolved.props # <<>> \/ resolved.allOf # <<>>

Frame(schema, current_path, visited, depth) ==
    [schema |-> schema, current_path |-> current_path, visited |-> visited,
     depth |-> depth, pos |-> 0]

\* the archive schemas: a chain of n types, each with the property p that
\* refers to the next one and the scalar property q; the last p is a scalar
\* (back = 0), refers back to the type back (a cycle; back = n is the
\* self-reference) or to an undefined type (back = n + 1).  The types are
\* objects with properties, allOf compositions of a reference to the base
\* type and two objects, or one type of nested inline objects.
LinkOf(i, n, back) ==
    IF i < n THEN RefNode(TypeNames[i + 1])
    ELSE IF back = 0 THEN ScalarNode ELSE RefNode(TypeNames[back])
RECURSIVE Nest(_, _, _)
Nest(i, n, back) ==
    ObjectNode(<<Prop("p", IF i < n THEN Nest(i + 1, n, back) ELSE LinkOf(n, n, back)),
                 Prop("q", ScalarNode)>>)
ChainType(form, i, n, back) ==
    IF form = "properties"
    THEN ObjectNode(<<Prop("p", LinkOf(i, n, back)), Prop("q", ScalarNode)>>)
    ELSE AllOfNode(<<RefNode(BaseType),
                     ObjectNode(<<Prop("p", LinkOf(i, n, back))>>),
                     ObjectNode(<<Prop("q", ScalarNode)>>)>>)
ArchiveSchemas(form, n, back) ==
    IF form = "inline" THEN [t \in {TypeNames[1]} |-> Nest(1, n, back)]
    ELSE [t \in {TypeNames[i] : i \in 1..n} |->
             ChainType(form, CHOOSE i \in 1..n : TypeNames[i] = t, n, back)]
         @@ (IF form = "allOf"
             THEN (BaseType :> ObjectNode(<<Prop("id", ScalarNode)>>))
             ELSE <<>>)

InitTemplates ==
    /\ RewriteIdle
    /\ SdkIdle
    /\ \E form \in {"properties", "allOf", "inline"}, n \in 1..MaxChain :
         \E back \in 0..(n + 1) :
            BundleInit("templates", ArchiveSchemas(form, n, back), {TypeNames[1]})

\* extract_template_info: valid_paths[""] and the first call
TemplatesStart ==
    /\ tool = "templates"
    /\ pc = "start"
    /\ pc' = "run"
    /\ out' = [out EXCEPT !.paths = {<<>>}]
    /\ stack' = <<Frame(docs[CHOOSE r \in roots : TRUE], <<>>, {}, 0)>>
    /\ UNCHANGED <<tool, docs, roots, fileQueue, crossRefs, curFile, nameQueue,
                   collected, types_to_inline, loaded_schemas, all_schemas,
                   required_schemas, refs_to_process, warnings, generated>>
    /\ UNCHANGED rwVars
    /\ UNCHANGED sdkVars
    /\ UNCHANGED mainVars

TraverseUnchanged ==
    /\ UNCHANGED <<tool, docs, roots, pc, fileQueue, crossRefs, curFile, nameQueue,
                   collected, types_to_inline, loaded_schemas, all_schemas,
                   required_schemas, refs_to_process, warnings, generated>>
    /\ UNCHANGED rwVars
    /\ UNCHANGED sdkVars
    /\ UNCHANGED mainVars

\* 'if depth > 10: return'
TraverseDepthLimit ==
    /\ tool = "templates"
    /\ pc = "run"
    /\ stack # <<>>
    /\ Top.pos = 0
    /\ DepthExceeded(Top.depth)
    /\ stack' = Pop(stack)
    /\ UNCHANGED out
    /\ TraverseUnchanged

\* the schema is a '$ref': return if it was visited or does not resolve,
\* else traverse the resolved type at the same path and depth, then return
TraverseRef ==
    /\ tool = "templates"
    /\ pc = "run"
    /\ stack # <<>>
    /\ Top.pos = 0
    /\ ~DepthExceeded(Top.depth)
    /\ Top.schema.ref # {}
    /\ LET ref == CHOOSE r \in Top.schema.ref : TRUE
           resolved == resolve_ref_templates(ref, docs)
       IN stack' = IF ref \in Top.visited \/ resolved = None
                   THEN Pop(stack)
                   ELSE Append(Pop(stack), Frame(resolved, Top.current_path,
                                          Top.visited \cup {ref}, Top.depth))
    /\ UNCHANGED out
    /\ TraverseUnchanged

\* 'for sub_schema in schema["allOf"]': the next sub-schema is traversed at
\* the same path and depth
TraverseAllOf ==
    /\ tool = "templates"
    /\ pc = "run"
    /\ stack # <<>>
    /\ Top.pos > 0 \/ ~DepthExceeded(Top.depth)
    /\ Top.schema.ref = {}
    /\ Top.pos < Len(Top.schema.allOf)
    /\ stack' = Append(Append(Pop(stack), [Top EXCEPT !.pos = @ + 1]),
                       Frame(Top.schema.allOf[Top.pos + 1], Top.current_path,
                             Top.visited, Top.depth))
    /\ UNCHANGED out
    /\ TraverseUnchanged

\* 'for prop_name, prop_schema in properties.items()': the path of the next
\* property is recorded, and the property is traversed one level deeper if it
\* is an unvisited reference to an object type or an inline object
TraverseProperty ==
    /\ tool = "templates"
    /\ pc = "run"
    /\ stack # <<>>
    /\ Top.pos > 0 \/ ~DepthExceeded(Top.depth)
    /\ Top.schema.ref = {}
    /\ Top.schema.allOf = <<>>
    /\ Top.pos < Len(Top.schema.props)
    /\ LET prop == Top.schema.props[Top.pos + 1]
           prop_schema == prop.schema
           prop_path == Append(Top.current_path, prop.name)
           next == Append(Pop(stack), [Top EXCEPT !.pos = @ + 1])
           ref == CHOOSE r \in prop_schema.ref : TRUE
           resolved == resolve_ref_templates(ref, docs)
       IN /\ out' = [out EXCEPT !.paths = @ \cup {prop_path}]
          /\ stack' =
               IF prop_schema.ref # {}
               THEN IF ref \notin Top.visited /\ resolved # None /\ IsTraversable(resolved)
                    THEN Append(next, Frame(resolved, prop_path, Top.visited \cup {ref},
                                            Top.depth + 1))
                    ELSE next
               ELSE IF prop_schema.type = "object" /\ prop_schema.props # <<>>
                    THEN Append(next, Frame(prop_schema, prop_path, Top.visited,
                                            Top.depth + 1))
                    ELSE next
    /\ TraverseUnchanged

\* the loop of the call is exhausted: the call returns
TraverseReturn ==
    /\ tool = "templates"
    /\ pc = "run"
    /\ stack # <<>>
    /\ Top.pos > 0 \/ ~DepthExceeded(Top.depth)
    /\ Top.schema.ref = {}
    /\ IF Top.schema.allOf # <<>>
       THEN Top.pos = Len(Top.schema.allOf)
       ELSE Top.pos = Len(Top.schema.props)
    /\ stack' = Pop(stack)
    /\ UNCHANGED out
    /\ TraverseUnchanged

\* main: the template class is written and the script ends
TemplatesFinish ==
    /\ tool = "templates"
    /\ pc = "run"
    /\ stack = <<>>
    /\ pc' = "done"
    /\ out' = [out EXCEPT !.written = TRUE]
    /\ generated' = generated \cup
                      {"bannou-service/Generated/ResourceTemplates/ArchiveTemplate.cs"}
    /\ exit_code' = 0
    /\ UNCHANGED <<tool, docs, roots, fileQueue, crossRefs, curFile, nameQueue, stack,
                   collected, types_to_inline, loaded_schemas, all_schemas,
                   required_schemas, refs_to_process, warnings, argv, malformed>>
    /\ UNCHANGED rwVars
    /\ UNCHANGED sdkVars

NextTemplates ==
    \/ TemplatesStart
    \/ TraverseDepthLimit
    \/ TraverseRef
    \/ TraverseAllOf
    \/ TraverseProperty
    \/ TraverseReturn
    \/ TemplatesFinish
SpecTemplates == InitTemplates /\ [][NextTemplates]_vars
\* a call that was entered runs to its return
FairTemplates == SpecTemplates /\ WF_vars(NextTemplates)

LastOp == IF Len(ops) = 0 THEN "none" ELSE ops[Len(ops)]

\* ------------------------------------------------------------------------
\* Properties of the reference rewriters (SpecRewrite)
\* ------------------------------------------------------------------------

\* the three spellings of a cross-file reference to a sibling schema file
IsSiblingRef(r) == Len(r.head) = 1 /\ r.head[1] \in FileNames
IsCrossFileRef(r) ==
    \E f \in FileNames : r.head \in {<<f>>, DotSlash \o <<f>>, DotDotSlash \o <<f>>}

\* C8: a sibling-file reference f.yaml#P (no directory prefix) is rewritten by
\* fix_relative_paths_for_generated to ../f.yaml#P, and a local #/...
\* reference is left unchanged.
C8_SiblingRefGetsParentPrefix ==
    LastOp \in {"fix_event", "fix_lifecycle"} =>
        \A i \in DOMAIN doc :
            prevDoc[i].key = RefKey =>
                /\ IsSiblingRef(prevDoc[i].val) =>
                      doc[i] = [key |-> RefKey,
                                val |-> MkRef(<<".", ".", "/", prevDoc[i].val.head[1]>>,
                                              prevDoc[i].val.path, prevDoc[i].val.name)]
                /\ prevDoc[i].val.head = <<>> => doc[i] = prevDoc[i]

C8_Witness ==
    /\ LastOp = "fix_event"
    /\ \E i \in DOMAIN doc :
          /\ prevDoc[i].key = RefKey
          /\ IsSiblingRef(prevDoc[i].val)
          /\ doc[i].val.head = DotDotSlash \o prevDoc[i].val.head

\* C9: every reference rewriter is idempotent: applying convert_refs_to_local
\* (resolve-event-refs), fix_relative_paths_for_generated (both scripts) or
\* rewrite_external_refs to its own output, with the same inlined set,
\* changes no reference.
IdempotentOps == {"convert_event", "fix_event", "fix_lifecycle", "rewrite_external"}
C9_RewritersIdempotent ==
    [][(LastOp \in IdempotentOps /\ ops' = Append(ops, LastOp)) => doc' = doc]_vars

C9_Witness ==
    /\ Len(ops) = 2
    /\ ops[1] = ops[2]
    /\ ops[1] \in IdempotentOps
    /\ prevDoc # origDoc
    /\ doc = prevDoc

\* C10: convert_cross_refs_to_local replaces a $ref value by
\* '#/components/schemas/N' exactly when the value is a cross-file reference
\* whose type name N is in the inlined set; every other reference and every
\* node that is not a $ref is left unchanged.
C10_ConvertApiFrame ==
    LastOp = "convert_api" =>
        \A i \in DOMAIN doc :
            doc[i] = IF /\ prevDoc[i].key = RefKey
                        /\ IsCrossFileRef(prevDoc[i].val)
                        /\ prevDoc[i].val.path = CS
                        /\ prevDoc[i].val.name \in inlinedArg
                     THEN [key |-> RefKey, val |-> LocalRef(prevDoc[i].val.name)]
                     ELSE prevDoc[i]

C10_Witness ==
    /\ LastOp = "convert_api"
    /\ \E i \in DOMAIN doc :
          /\ IsCrossFileRef(prevDoc[i].val)
          /\ prevDoc[i].key = RefKey
          /\ doc[i].val = LocalRef(prevDoc[i].val.name)

\* ------------------------------------------------------------------------
\* What the references of a universe mean
\* ------------------------------------------------------------------------
\* the type a reference written in file f points to
Target(f, r) ==
    [file |-> IF r.head \in {<<>>, DotSlash} THEN f ELSE r.head[Len(r.head)],
     name |-> r.name]
Targets(f, refs) == {Target(f, r) : r \in {x \in refs : x.path = CS}}
Defined(id) == id.file \in DOMAIN docs /\ id.name \in DOMAIN docs[id.file]
StepFrom(S, Follow(_, _)) ==
    S \cup UNION {Follow(id.file, docs[id.file][id.name]) : id \in {x \in S : Defined(x)}}
\* the types reachable from the types S by zero or more references
RECURSIVE Reach(_)
Reach(S) == IF StepFrom(S, Targets) = S THEN S ELSE Reach(StepFrom(S, Targets))
\* ... by zero or more references that stay inside the type's own file
LocalTargets(f, refs) == {id \in Targets(f, refs) : id.file = f}
RECURSIVE LocalReach(_)
LocalReach(S) ==
    IF StepFrom(S, LocalTargets) = S THEN S ELSE LocalReach(StepFrom(S, LocalTargets))
DefinedNames(S) == {id.name : id \in {x \in S : Defined(x)}}

NoDup(d) == \A i, k \in DOMAIN d : i # k => d[i].name # d[k].name
Done == pc = "done"

\* ------------------------------------------------------------------------
\* Properties of generate-client-schema.py (Spec)
\* ------------------------------------------------------------------------
EndpointTargets == UNION {Targets(f, roots[f]) : f \in DOMAIN roots}

\* C1: every type that is defined in a loaded service schema and reachable
\* from a client-accessible endpoint by zero or more $ref references appears
\* in the consolidated components/schemas, whatever the order of the files.
C1_ClientClosureComplete ==
    (tool = "client" /\ Done) =>
        DefinedNames(Reach(EndpointTargets)) \subseteq Names(out.schemas)

\* ------------------------------------------------------------------------
\* Properties of resolve-api-refs.py (Spec)
\* ------------------------------------------------------------------------
AllOfTargets == Targets(AccountApi, roots)
Added == {out.schemas[i] : i \in {k \in DOMAIN out.schemas : out.schemas[k].file # AccountApi}}
IsSortedNames(q) == \A i, k \in DOMAIN q : i < k => Rank[q[i]] < Rank[q[k]]
Range(q) == {q[i] : i \in DOMAIN q}

\* C2: every type reachable from a cross-file allOf root of the API schema by
\* zero or more references, local ones and cross-document ones found inside
\* the inlined types, appears under components/schemas of the resolved output.
C2_ApiClosureComplete ==
    (tool = "api" /\ Done /\ out.written) =>
        DefinedNames(Reach(AllOfTargets)) \subseteq Names(out.schemas)

\* C3: resolve_api_schema adds to the root's components/schemas only types
\* reachable from one of the root's cross-file allOf references, and
\* x-inlined-types is exactly the sorted list of the names of the added types.
C3_ApiAddsOnlyReachable ==
    (tool = "api" /\ Done /\ out.written) =>
        /\ \A e \in Added : [file |-> e.file, name |-> e.name] \in Reach(AllOfTargets)
        /\ Range(out.xInlined) = {e.name : e \in Added}
        /\ IsSortedNames(out.xInlined)

C3_Witness ==
    /\ tool = "api"
    /\ Done
    /\ out.written
    /\ Len(out.xInlined) >= 2
    /\ Cardinality(DefinedNames(Reach(Targets(AccountApi, docs[AccountApi][RootType])))) > Len(out.xInlined)

\* ------------------------------------------------------------------------
\* Properties of the collectors (Spec, FairSpec)
\* ------------------------------------------------------------------------
StackNames == {stack[i].name : i \in DOMAIN stack}
\* the collection that ran last is complete
CollectionComplete == stack = <<>> /\ collected # <<>>
ArchiveRoots == {[file |-> AccountApi, name |-> n] : n \in roots}

\* C4: get_type_with_dependencies (resolve-api-refs, resolve-event-refs) and
\* collect_type_with_deps terminate on every schema map, cycles included; the
\* collected mapping holds exactly one definition per reached type, and a
\* type that is already collected is never expanded again.
C4_Collected ==
    /\ NoDup(collected)
    /\ Cardinality(StackNames) = Len(stack)
    /\ StackNames \subseteq Names(collected)
    /\ (tool \in {"api", "event"} /\ CollectionComplete) =>
          Names(collected) = DefinedNames(LocalReach({[file |-> collected[1].file,
                                                        name |-> collected[1].name]}))
    /\ (tool = "archive" /\ Done) =>
          Names(collected) = DefinedNames(Reach(ArchiveRoots))
C4_CollectorsTerminate == [](tool # "client" => C4_Collected) /\ <>Done

C4_Witness ==
    /\ tool \in {"api", "event", "archive"}
    /\ Done
    /\ \E i, k \in DOMAIN collected :
          /\ i < k
          /\ LocalRef(collected[i].name) \in docs[collected[k].file][collected[k].name]
          /\ LocalRef(collected[k].name) \in docs[collected[i].file][collected[i].name]

\* the names collect_required_schemas would add for the endpoint references
\* pending, given the schemas comps and the names req required before: the
\* least set holding the pending names not in req and, for each member that
\* comps defines, the names its definition references that are not in req
ClientEdges(def) ==
    {r.name : r \in {x \in def : x.path = CS /\
        (x.head = <<>> \/ x.head[Len(x.head)] \in ApiFileNames)}}
RECURSIVE AvoidClosure(_, _, _)
AvoidClosure(S, comps, req) ==
    LET more == UNION {ClientEdges(docs[DictGet(comps, n).file][n]) :
                          n \in S \cap Names(comps)}
        N == S \cup (more \ req)
    IN IF N = S THEN S ELSE AvoidClosure(N, comps, req)
RECURSIVE RequiredAfter(_, _, _)
RequiredAfter(files, comps, req) ==
    IF files = <<>> THEN req
    ELSE LET now == AddFirstWins(comps, FileEntries(Head(files)))
         IN RequiredAfter(Tail(files), now,
                req \cup AvoidClosure(ClientEdges(roots[Head(files)]) \ req, now, req))
\* the types resolve_event_schema starts a collection from: the targets of
\* the references of the event schema written with a leading "./" or "../"
\* that have local references of their own
DottedRefs(refs) == {r \in refs : Len(r.head) >= 1 /\ r.head[1] = "."}
EventComplexRoots ==
    {id \in Targets(AccountEvents, DottedRefs(AllRefs(docs[AccountEvents]))) :
        /\ id.file # AccountEvents
        /\ Defined(id)
        /\ LocalTargets(id.file, docs[id.file][id.name]) # {}}

\* C5: the set of collected types does not depend on the traversal order:
\* every order in which collect_required_schemas pops its pending set, and
\* every order in which get_type_with_dependencies of resolve-event-refs
\* iterates its references, ends with the same set, each type once.
C5_OrderIndependent ==
    /\ (tool = "client" /\ Done) =>
          /\ required_schemas =
                RequiredAfter(SortedFiles(DOMAIN docs \cap ApiFileNames),
                              IF CommonApi \in DOMAIN docs THEN FileEntries(CommonApi)
                              ELSE <<>>, {})
          /\ NoDup(out.schemas)
    /\ (tool = "event" /\ CollectionComplete) =>
          /\ NoDup(collected)
          /\ Names(collected) = DefinedNames(LocalReach({[file |-> collected[1].file,
                                                           name |-> collected[1].name]}))
    /\ (tool = "event" /\ Done) =>
          /\ NoDup(types_to_inline)
          /\ Names(types_to_inline) = DefinedNames(LocalReach(EventComplexRoots))

\* a diamond was traversed: two collected types reference a third one
C5_Witness ==
    /\ Done
    /\ \/ tool = "event" /\ out.written
       \/ tool = "client" /\ out.written
    /\ LET got == IF tool = "event" THEN types_to_inline
                  ELSE [i \in DOMAIN out.schemas |->
                          [name |-> out.schemas[i].name, file |-> out.schemas[i].file]]
       IN \E a, b, d \in DOMAIN got :
             /\ a # b /\ a # d /\ b # d
             /\ \E r \in docs[got[a].file][got[a].name] : r.name = got[d].name
             /\ \E r \in docs[got[b].file][got[b].name] : r.name = got[d].name

\* ------------------------------------------------------------------------
\* Properties of resolve-event-refs.py (Spec)
\* ------------------------------------------------------------------------
\* the names inserted into components/schemas, in their order in the output
InlinedOrder == SelectSeq([i \in DOMAIN out.schemas |-> out.schemas[i].name],
                          LAMBDA n : n \in Names(types_to_inline))

\* C6: the inlined definitions are inserted into components/schemas in the
\* order sorted by type identity, whatever the iteration order of the
\* reference sets: the output is the same in every run.
C6_EventOutputSorted ==
    (tool = "event" /\ Done /\ out.written) => IsSortedNames(InlinedOrder)

\* ------------------------------------------------------------------------
\* Properties of extract-archive-schemas.py (Spec)
\* ------------------------------------------------------------------------
\* Account references Address of common-api.yaml through a cross-document
\* reference, Address references Country locally, Country references nothing
AccountScenario ==
    /\ tool = "archive"
    /\ roots = {"Account"}
    /\ {AccountApi, CommonApi} \subseteq DOMAIN docs
    /\ DOMAIN docs[AccountApi] = {"Account"}
    /\ {"Address", "Country"} \subseteq DOMAIN docs[CommonApi]
    /\ \E spell \in Spellings :
          docs[AccountApi]["Account"] = {MkRef(spell \o <<CommonApi>>, CS, "Address")}
    /\ docs[CommonApi]["Address"] = {LocalRef("Country")}
    /\ docs[CommonApi]["Country"] = {}

\* C7: bundling Account in that scenario yields exactly the definitions
\* Account, Address and Country, Account's reference rewritten to the local
\* pointer to Address and Address's reference the local pointer to Country.
C7_AccountScenarioBundle ==
    (AccountScenario /\ Done) =>
        /\ out.written
        /\ Len(out.schemas) = 3
        /\ Names(out.schemas) = {"Account", "Address", "Country"}
        /\ DictGet(out.schemas, "Account").refs = {LocalRef("Address")}
        /\ DictGet(out.schemas, "Address").refs = {LocalRef("Country")}
        /\ DictGet(out.schemas, "Country").refs = {}

C7_Witness ==
    /\ AccountScenario
    /\ Done
    /\ docs[AccountApi]["Account"] = {MkRef(DotDotSlash \o <<CommonApi>>, CS, "Address")}
    /\ Len(out.schemas) = 3

\* ------------------------------------------------------------------------
\* Properties of the emitted client schema (Spec)
\* ------------------------------------------------------------------------
IsCrossDocRef(r) == r.head # <<>> /\ r.path = CS

\* C11: in generate-client-schema a cross-document $ref is rewritten to the
\* local pointer '#/components/schemas/N' only if N is present in the
\* consolidated components/schemas: no emitted definition holds a local
\* pointer, made from a cross-document reference, to an absent type.
C11_ClientRewriteOnlyPresent ==
    (tool = "client" /\ Done) =>
        \A i \in DOMAIN out.schemas :
            \A r \in docs[out.schemas[i].file][out.schemas[i].name] :
                (IsCrossDocRef(r) /\ LocalRef(r.name) \in out.schemas[i].refs)
                    => r.name \in Names(out.schemas)

\* ------------------------------------------------------------------------
\* Properties of embed-meta-schemas.py (SpecMeta)
\* ------------------------------------------------------------------------
RECURSIVE RefsIn(_)
RefsIn(o) == o.ref \cup UNION {RefsIn(o.kids[i]) : i \in DOMAIN o.kids}
EmittedRefs == RefsIn(out.bundled) \cup UNION {RefsIn(out.defs[n]) : n \in DOMAIN out.defs}

\* C12: every JSON Schema made by create_json_schema is self-contained:
\* each $ref in it, in the root or inside a $defs entry, is '#/$defs/N' with
\* N a key of its own $defs, also for cycles, missing types and references
\* to other files.
C12_JsonSchemaSelfContained ==
    (tool = "meta" /\ Done) =>
        \A r \in EmittedRefs :
            r.head = <<>> /\ r.path = JsonDefs /\ r.name \in DOMAIN out.defs

\* ------------------------------------------------------------------------
\* Properties of the reference forms (SpecForms, Spec)
\* ------------------------------------------------------------------------
\* the types the event schema refers to through a reference written with a
\* leading "./" or "../", and that refer to a type of their own file
DottedComplexRoots ==
    {id \in Targets(AccountEvents, DottedRefs(AllRefs(docs[AccountEvents]))) :
        Defined(id) /\ LocalTargets(id.file, docs[id.file][id.name]) # {}}
FormsUsed(f) == {r.head : r \in AllRefs(docs[f])}
InlinedEntries == {out.schemas[i] : i \in {k \in DOMAIN out.schemas :
                                              out.schemas[k].file # RootFile(tool)}}

\* C13: in resolve-event-refs a reference inside a type of source document F
\* written F#/components/schemas/T counts like #/components/schemas/T: the
\* containing type is complex, T and its dependencies are inlined, and the
\* emitted reference is the local pointer to T.
C13_FileNameFormIsLocal ==
    (/\ tool = "event"
     /\ Done
     /\ CommonApi \in DOMAIN docs
     /\ FormsUsed(CommonApi) \subseteq {<<>>, <<CommonApi>>}
     /\ DottedComplexRoots # {}) =>
        /\ out.written
        /\ DefinedNames(LocalReach(DottedComplexRoots)) \subseteq Names(out.schemas)
        /\ \A e \in InlinedEntries : \A r \in e.refs : r.head = <<>>

\* C14: in extract-archive-schemas a reference ./#/components/schemas/T
\* counts like #/components/schemas/T: collect_type_with_deps collects T and
\* the dependencies of T, and the collected result is the same.
C14_DotSlashFormIsLocal ==
    (/\ tool = "archive"
     /\ Done
     /\ FormsUsed(AccountApi) \subseteq {<<>>, DotSlash}) =>
        Names(collected) = DefinedNames(Reach(ArchiveRoots))

\* C15: resolve-event-refs recognizes a cross-document reference written
\* f.yaml#/..., ./f.yaml#/... or ../f.yaml#/...: when the target type has
\* nested references, its closure is inlined and the reference becomes the
\* local pointer, for each of the three spellings.
AnySpellingComplexRoots ==
    {id \in Targets(AccountEvents, AllRefs(docs[AccountEvents])) :
        /\ id.file # AccountEvents
        /\ Defined(id)
        /\ find_local_refs_event(docs[id.file][id.name]) # {}}
C15_EverySpellingRecognized ==
    (tool = "event" /\ Done /\ AnySpellingComplexRoots # {}) =>
        /\ out.written
        /\ DefinedNames(LocalReach(AnySpellingComplexRoots)) \subseteq Names(out.schemas)
        /\ \A id \in AnySpellingComplexRoots :
              LocalRef(id.name) \in DictGet(out.schemas, RootType).refs

\* ------------------------------------------------------------------------
\* Properties of same-named types (SpecSameName)
\* ------------------------------------------------------------------------
Written == Done /\ out.written
\* the definition the output holds under the name n comes from document f
OutputHolds(f, n) == n \in Names(out.schemas) /\ DictGet(out.schemas, n).file = f

\* C16: in resolve_api_schema same-named types of different documents stay
\* distinct: a reference to type N of document D2 is never rewritten into a
\* pointer to a definition of N copied from another document, and a collected
\* definition is never replaced by a same-named one of another document.
C16_SameNameStaysDistinct ==
    (tool = "api" /\ Written) =>
        /\ \A i \in DOMAIN out.schemas :
              \A r \in docs[out.schemas[i].file][out.schemas[i].name] :
                  (/\ r.head # <<>>
                   /\ LocalRef(r.name) \in out.schemas[i].refs
                   /\ LocalRef(r.name) \notin docs[out.schemas[i].file][out.schemas[i].name])
                      => OutputHolds(Target(out.schemas[i].file, r).file, r.name)
        /\ \A id \in LocalReach(AllOfTargets) :
              (Defined(id) /\ id.name \notin DOMAIN docs[AccountApi])
                  => OutputHolds(id.file, id.name)

\* C17: the resolved output of resolve_api_schema and resolve_event_schema
\* holds every type the root document defines, with its own definition:
\* inserting a closure member never replaces a same-named type of the root.
C17_RootTypesKept ==
    (tool \in {"api", "event"} /\ Written) =>
        \A n \in DOMAIN docs[RootFile(tool)] : OutputHolds(RootFile(tool), n)

\* ------------------------------------------------------------------------
\* Properties of missing documents (SpecSameName, Spec)
\* ------------------------------------------------------------------------
\* the allOf references of the root into documents that do not exist
IntoMissing == {r \in roots : Target(AccountApi, r).file \notin DOMAIN docs}
ExistingRoots == {id \in AllOfTargets : Defined(id)}

\* C18: when a document referenced by resolve_api_schema does not exist, a
\* warning is emitted, the run goes on, the references into the missing
\* document keep their original string, and the output still holds every
\* type inlined from the documents that exist.
C18_MissingDocumentTolerated ==
    (tool = "api" /\ Done /\ IntoMissing # {}) =>
        /\ \A r \in IntoMissing :
              [kind |-> "could_not_load", what |-> cross_file_re(r.head)] \in warnings
        /\ ExistingRoots # {} =>
              /\ out.written
              /\ DefinedNames(LocalReach(ExistingRoots)) \subseteq Names(out.schemas)
              /\ IntoMissing \subseteq DictGet(out.schemas, RootType).refs

\* ------------------------------------------------------------------------
\* Properties of the exit status (SpecMain, SpecParse)
\* ------------------------------------------------------------------------
Exited == pc = "exited"
\* the references of the root document into documents that do not exist
RefsIntoMissing ==
    {r \in AllRefs(docs[AccountApi]) :
        IsCrossDocRef(r) /\ Target(AccountApi, r).file \notin DOMAIN docs}

\* C19: with the strictness flag set, a bundling run whose input holds a
\* reference to a document that does not exist ends with a non-zero exit
\* status and writes no output file.
C19_StrictRunFails ==
    (tool = "api" /\ Exited /\ StrictFlag \in Range(argv) /\ RefsIntoMissing # {}) =>
        (exit_code # 0 /\ ~out.written)

\* C20: generate-client-schema never exits with status 0 and a written
\* consolidated schema after one of its service schema files failed to parse.
C20_ParseFailureFails ==
    (tool = "client" /\ Exited /\ \E w \in warnings : w.kind = "failed_to_parse") =>
        ~(exit_code = 0 /\ out.written)

\* ------------------------------------------------------------------------
\* Properties of the warnings (Spec)
\* ------------------------------------------------------------------------
\* the references the event resolver extracted from the root document that
\* do not resolve: the document or the type does not exist
UnresolvedEventRefs ==
    {x \in find_cross_file_refs(AllRefs(docs[AccountEvents])) :
        ~PathExists(x.file) \/ x.name \notin DOMAIN docs[x.file[1]]}
\* the references collect_type_with_deps extracted from a collected type
\* that do not resolve
UnresolvedArchiveRefs ==
    UNION {{x \in find_refs_in_type(docs[e.file][e.name]) :
               LET f == IF x.file = NoFile THEN e.file ELSE x.file[1]
               IN f \notin DOMAIN docs \/ x.name \notin DOMAIN docs[f]} :
           e \in Range(collected)}
Warned(x) ==
    \/ [kind |-> "could_not_load", what |-> x.file] \in warnings
    \/ [kind |-> "type_not_found", what |-> x.name] \in warnings

\* C21: every reference that fails to resolve, because its document or its
\* type is missing, is reported as a warning by collect_type_with_deps and
\* by resolve_event_schema; none is dropped silently.
C21_UnresolvedIsWarned ==
    /\ (tool = "event" /\ Done) => \A x \in UnresolvedEventRefs : Warned(x)
    /\ (tool = "archive" /\ Done) => \A x \in UnresolvedArchiveRefs : Warned(x)

\* ------------------------------------------------------------------------
\* Frame properties (SpecFrame)
\* ------------------------------------------------------------------------
\* C22: a run of resolve-api-refs, resolve-event-refs or embed-meta-schemas
\* never modifies a source document: the loaded source trees and the files
\* directly under schemas/ are the same after every step, every edit is made
\* on a copy and every file written is one of schemas/Generated/.
C22_SourcesUnchanged ==
    [][(tool \in {"api", "event", "meta"}) => UNCHANGED <<docs, roots>>]_vars

\* a resolved document was written in which the definition of a type differs
\* from the source's: the rewriters changed a reference of the working copy
C22_Witness ==
    /\ tool \in {"api", "event"}
    /\ Done
    /\ out.written
    /\ generated # {}
    /\ \E i \in DOMAIN out.schemas :
          out.schemas[i].refs # docs[out.schemas[i].file][out.schemas[i].name]

\* ------------------------------------------------------------------------
\* Properties of generate-unreal-sdk.py (SpecSdk)
\* ------------------------------------------------------------------------
StepsRun == Len(returncodes)

\* C23: generate-unreal-sdk runs its three steps strictly in order: a step
\* is started only after the previous one exited with code 0, the first
\* missing script or failing step ends the run with exit code 1 without
\* starting a later step, and completion is reported only if all three
\* steps succeeded and every expected output file exists.
C23_StepsInOrder ==
    tool = "unreal-sdk" =>
        /\ StepsRun <= 3
        /\ \A i \in 1..StepsRun : i < StepsRun => returncodes[i] = 0
        /\ \A i \in 1..3 : pc = StepPc[i] =>
              (StepsRun = i - 1 /\ \A k \in 1..StepsRun : returncodes[k] = 0)
        /\ (Exited /\ StepsRun < 3) =>
              /\ exit_code = 1
              /\ (StepsRun > 0 /\ returncodes[StepsRun] = 0) =>
                    StepScripts[StepsRun + 1] \notin scripts
        /\ (\E i \in 1..StepsRun : returncodes[i] # 0) => (Exited /\ exit_code = 1)
        /\ Exited => exit_code \in {0, 1}
        /\ reported <=> (Exited /\ exit_code = 0)
        /\ reported =>
              /\ StepsRun = 3
              /\ \A i \in 1..3 : returncodes[i] = 0
              /\ ExpectedFiles \subseteq generated

\* a run that stopped at a failing second step, and a run that completed
C23_Witness ==
    /\ tool = "unreal-sdk"
    /\ Exited
    /\ returncodes = <<0, 2>>
    /\ exit_code = 1
C23_WitnessComplete == tool = "unreal-sdk" /\ reported

\* ------------------------------------------------------------------------
\* Properties of bundle_schema (FairMeta, SpecMeta)
\* ------------------------------------------------------------------------
\* the components/schemas names a schema object refers to
TypeRefs(o) == {r.name : r \in {x \in RefsIn(o) : x.head = <<>> /\ x.path = CS}}
\* the type names reachable from the body of the operation
RECURSIVE MetaReach(_)
MetaReach(S) ==
    LET more == S \cup UNION {TypeRefs(docs[n]) : n \in S \cap DOMAIN docs}
    IN IF more = S THEN S ELSE MetaReach(more)
BodyTypes == UNION {TypeRefs(o) : o \in roots}
\* the types that lie on a cycle of references
OnCycle(n) == n \in DOMAIN docs /\ n \in MetaReach(TypeRefs(docs[n]))

C24_Expanded ==
    (tool = "meta" /\ Done) =>
        /\ \A i, k \in DOMAIN out.expanded : i # k => out.expanded[i] # out.expanded[k]
        /\ Range(out.expanded) = MetaReach(BodyTypes)
        /\ DOMAIN out.defs = MetaReach(BodyTypes)
        /\ \A r \in EmittedRefs : ~(r.head = <<>> /\ r.path = CS)
        /\ \A n \in DOMAIN out.defs :
              OnCycle(n) => \E m \in DOMAIN out.defs :
                                MkRef(<<>>, JsonDefs, n) \in RefsIn(out.defs[m])

\* C24: bundle_schema terminates on every finite schema, circular references
\* included; each referenced components/schemas type is expanded exactly
\* once into $defs, and a reference that closes a cycle is kept as a $ref
\* converted to '#/$defs/N' instead of being expanded again.
C24_BundleTerminatesOnce == [](C24_Expanded) /\ <>Done

\* a bundle of two types that refer to each other
C24_Witness ==
    /\ tool = "meta"
    /\ Done
    /\ {"Account", "Address"} \subseteq DOMAIN out.defs
    /\ OnCycle("Account")
    /\ OnCycle("Address")
    /\ "Address" \in TypeRefs(docs["Account"])

\* ------------------------------------------------------------------------
\* One visited set for the whole traversal (SpecMeta)
\* ------------------------------------------------------------------------
\* bundle_schema with every visited.copy() replaced by visited itself
InPlaceBundle ==
    IF roots = {} THEN [bundled |-> PlainObject, defs |-> NoDefs]
    ELSE Only({[bundled |-> b.res, defs |-> b.defs] :
               b \in {Bundle(CHOOSE n \in roots : TRUE, docs, NoDefs, {}, <<>>, FALSE)}})
NonTypeRefs == {r \in MetaRefs : ~(r.head = <<>> /\ r.path = CS)}

\* C27: the per-branch copies of visited are not needed: bundle_schema with
\* one visited set changed in place gives the same bundled root and the same
\* $defs as the original, for every input schema.
C27_InPlaceVisitedSame ==
    (tool = "meta" /\ Done) =>
        /\ out.bundled = InPlaceBundle.bundled
        /\ out.defs = InPlaceBundle.defs

\* ------------------------------------------------------------------------
\* Properties of generate-resource-templates.py (SpecTemplates)
\* ------------------------------------------------------------------------
Segments(path) == Len(path)
\* the property paths of a schema when no depth is cut off: every property,
\* followed through unvisited references and inline objects
RECURSIVE PathsOf(_, _, _)
RECURSIVE PropPaths(_, _, _, _)
PropPaths(props, i, path, visited) ==
    IF i > Len(props) THEN {}
    ELSE LET s == props[i].schema
             pp == Append(path, props[i].name)
             ref == CHOOSE r \in s.ref : TRUE
         IN {pp}
            \cup (IF s.ref # {}
                  THEN IF ref \notin visited /\ ref \in DOMAIN docs /\ IsTraversable(docs[ref])
                       THEN PathsOf(docs[ref], pp, visited \cup {ref})
                       ELSE {}
                  ELSE IF s.type = "object" /\ s.props # <<>>
                       THEN PathsOf(s, pp, visited)
                       ELSE {})
            \cup PropPaths(props, i + 1, path, visited)
PathsOf(schema, path, visited) ==
    IF schema.ref # {}
    THEN LET ref == CHOOSE r \in schema.ref : TRUE
         IN IF ref \in visited \/ ref \notin DOMAIN docs THEN {}
            ELSE PathsOf(docs[ref], path, visited \cup {ref})
    ELSE IF schema.allOf # <<>>
    THEN UNION {PathsOf(schema.allOf[k], path, visited) : k \in DOMAIN schema.allOf}
    ELSE PropPaths(schema.props, 1, path, visited)
FullPaths == {<<>>} \cup PathsOf(docs[CHOOSE r \in roots : TRUE], <<>>, {})
Truncated == out.paths # FullPaths

C25_DepthBound ==
    tool = "templates" =>
        /\ \A i \in DOMAIN stack :
              /\ stack[i].depth <= MaxDepth + 1
              /\ stack[i].pos > 0 => stack[i].depth <= MaxDepth
        /\ \A path \in out.paths : Segments(path) <= MaxDepth + 1

\* C25: traverse_schema terminates for every finite set of schemas, also
\* with self-referencing and mutually recursive $refs; it never looks at the
\* properties of a call deeper than depth 10, and no key of ValidPaths has
\* more than 11 property segments.
C25_TraverseBounded == []C25_DepthBound /\ <>Done
\* a finished run over a cycle of types, and one that recorded a key of 11
\* segments and was cut off there
C25_Witness ==
    /\ tool = "templates"
    /\ Done
    /\ \E path \in out.paths : Segments(path) = MaxDepth + 1
    /\ Truncated
C25_WitnessCycle ==
    /\ tool = "templates"
    /\ Done
    /\ docs[TypeNames[1]].props # <<>>
    /\ docs[TypeNames[1]].props[1].schema = RefNode(TypeNames[1])
    /\ <<"p", "p">> \in out.paths

\* C26: exceeding the depth ceiling is a hard failure: a run whose traversal
\* reached the depth limit without a repeated reference fails with an error
\* and does not return output that is cut off at that depth.
C26_DepthLimitFails ==
    (tool = "templates" /\ Done /\ Truncated) => (exit_code # 0 /\ ~out.written)

\* ------------------------------------------------------------------------
\* The lifecycle-events file (SpecRewrite)
\* ------------------------------------------------------------------------
ParentPrefixes(h) == Cardinality({i \in 1..(Len(h) - 2) : SubSeq(h, i, i + 2) = DotDotSlash})

\* C28: fix_relative_paths_for_generated of generate-lifecycle-events maps
\* f.yaml#P, ./f.yaml#P and ../f.yaml#P to ../f.yaml#P and leaves a local
\* #/... reference unchanged, so every cross-file reference of the generated
\* file carries exactly one ../ prefix.
C28_LifecycleOneParentPrefix ==
    LastOp = "fix_lifecycle" =>
        \A i \in DOMAIN doc :
            prevDoc[i].key = RefKey =>
                LET r == prevDoc[i].val
                IN /\ IsCrossFileRef(r) =>
                        /\ doc[i] = [key |-> RefKey,
                                     val |-> MkRef(DotDotSlash \o <<r.head[Len(r.head)]>>,
                                                   r.path, r.name)]
                        /\ ParentPrefixes(doc[i].val.head) = 1
                   /\ r.head = <<>> => doc[i] = prevDoc[i]

C28_Witness ==
    /\ ops = <<"fix_lifecycle", "fix_lifecycle">>
    /\ \E i \in DOMAIN doc :
          /\ origDoc[i].key = RefKey
          /\ StartsWith(origDoc[i].val.head, DotSlash)
          /\ IsCrossFileRef(origDoc[i].val)
          /\ prevDoc[i].val.head = DotDotSlash \o Tail2(origDoc[i].val.head)
          /\ doc[i] = prevDoc[i]

\* ------------------------------------------------------------------------
\* The references left in a written event schema (Spec)
\* ------------------------------------------------------------------------
WrittenRefs == UNION {out.schemas[i].refs : i \in DOMAIN out.schemas}
ToSiblingFile(r) == Len(r.head) >= 1 /\ r.head[Len(r.head)] \in FileNames

\* C29: in every schema written by resolve_event_schema each remaining
\* cross-document reference to a sibling schema file begins with ../,
\* whichever prefix it had in the source (none, ./ or ../) and whether it
\* comes from the root document or from an inlined type.
C29_WrittenRefsFromParent ==
    (tool = "event" /\ Done /\ out.written) =>
        \A r \in WrittenRefs : ToSiblingFile(r) => StartsWith(r.head, DotDotSlash)

\* ------------------------------------------------------------------------
\* The resolved API files in schemas/Generated/ (SpecMain)
\* ------------------------------------------------------------------------
\* the resolved files this run has written so far
ProducedNow == IF out.written THEN {ResolvedName(AccountApi)} ELSE {}
C30_NoOldFileSurvives ==
    (tool = "api" /\ argv = <<>> /\ pc # "main") =>
        generated \cap ApiResolvedNames = ProducedNow
C30_OnlyOwnFile ==
    (tool = "api" /\ argv # <<>>) =>
        \A f \in generated \cup generated' :
            (f \in generated) # (f \in generated') => f = OldFile(argv[1])

\* C30: after main of resolve-api-refs without a service argument,
\* schemas/Generated/ holds S-api-resolved.yaml exactly for the schemas S
\* resolved in this run: the old *-api-resolved.yaml files are deleted before
\* any schema is processed; with a service argument only that service's
\* resolved file is deleted or rewritten.
C30_GeneratedIsThisRun == []C30_NoOldFileSurvives /\ [][C30_OnlyOwnFile]_vars
\* a run without argument that found two old resolved files, wrote one new
\* one and ended; a run for one service that left the other service's file
C30_Witness ==
    /\ tool = "api"
    /\ argv = <<>>
    /\ Exited
    /\ exit_code = 0
    /\ out.written
    /\ generated = {"account-api-resolved.yaml", "account-events-resolved.yaml"}
C30_WitnessService ==
    /\ tool = "api"
    /\ argv = <<"account">>
    /\ Exited
    /\ ~out.written
    /\ generated = {"escrow-api-resolved.yaml"}

====
